---------------------------- MODULE Spec2Model ----------------------------
(***************************************************************************)
(* A model of package ini: the schema (Parser, Section, Field), the Store   *)
(* with its accessors (src/ini.go), and Parser.Parse, the line scanning    *)
(* loop, one scanner iteration per step, in its latest form, the one with  *)
(* variable expansion (the Go source that src/Makefile holds).  Two         *)
(* goroutines can call Parse on the one parser: the variables of the call  *)
(* that is running are the variables of the model, those of the other      *)
(* call are kept in the variable other, and Switch exchanges the two.      *)
(*                                                                         *)
(* Text is modelled as a sequence of one-character strings, so that the    *)
(* regular expressions and the string functions of the code act on the     *)
(* characters as they do in the code.  A Go value of type any is a         *)
(* sequence whose head is the dynamic type and whose tail is the payload.  *)
(***************************************************************************)
EXTENDS Integers, Sequences, FiniteSets, TLC

(***************************************************************************)
(* Bounds of the model.                                                    *)
(***************************************************************************)
\* the number of lines the reader delivers to one Parse call at most
MaxLines == 3

\* the number of lines the reader delivers beyond MaxLines to a Parse call
\* when they are lines of a list: assignments to a list field and the lines
\* of an open list literal
MaxListLines == 1

(***************************************************************************)
(* Characters.                                                             *)
(***************************************************************************)
\* the characters of the model that the regexp class \s and
\* strings.TrimSpace both take for white space
Space == {" ", "\t"}

Lower == {"a", "b", "c", "d", "e", "f", "g", "h", "i", "j", "k", "l", "m",
          "n", "o", "p", "q", "r", "s", "t", "u", "v", "w", "x", "y", "z"}

Upper == {"A", "B", "C", "D", "E", "F", "G", "H", "I", "J", "K", "L", "M",
          "N", "O", "P", "Q", "R", "S", "T", "U", "V", "W", "X", "Y", "Z"}

Digit == {"0", "1", "2", "3", "4", "5", "6", "7", "8", "9"}

\* the character class [-a-zA-Z0-9_$] of nameRe and valRe
NameChar == Lower \cup Upper \cup Digit \cup {"-", "_", "$"}

\* the character class [a-zA-Z0-9_] of varRe
VarChar == Lower \cup Upper \cup Digit \cup {"_"}

\* the character of code point 0
NUL == "NUL"

\* the first index j >= i of s that holds no character of set cs
\* (Len(s) + 1 if there is none): the end of a greedy cs* from i
Span(s, i, cs) ==
    IF i > Len(s) THEN i
    ELSE CHOOSE j \in i..(Len(s) + 1) :
             /\ \A k \in i..(j - 1) : s[k] \in cs
             /\ (j = Len(s) + 1 \/ s[j] \notin cs)

\* s[i..]
From(s, i) == SubSeq(s, i, Len(s))

HasPrefix(s, p) == Len(p) <= Len(s) /\ SubSeq(s, 1, Len(p)) = p

HasSuffix(s, p) == Len(p) <= Len(s) /\ SubSeq(s, Len(s) - Len(p) + 1, Len(s)) = p

TrimPrefix(s, p) == IF HasPrefix(s, p) THEN From(s, Len(p) + 1) ELSE s

TrimSuffix(s, p) == IF HasSuffix(s, p) THEN SubSeq(s, 1, Len(s) - Len(p)) ELSE s

\* TrimSpace that also removes the white space inside the text
RECURSIVE TrimSpace_inner(_)
TrimSpace_inner(s) ==
    IF s = <<>> THEN <<>>
    ELSE IF Head(s) \in Space THEN TrimSpace_inner(Tail(s))
    ELSE <<Head(s)>> \o TrimSpace_inner(Tail(s))

TrimSpace(s) ==
    LET i == Span(s, 1, Space)
    IN  IF i > Len(s) THEN <<>>
        ELSE LET j == CHOOSE j \in i..Len(s) :
                          /\ s[j] \notin Space
                          /\ \A k \in (j + 1)..Len(s) : s[k] \in Space
             IN  SubSeq(s, i, j)

(***************************************************************************)
(* The regular expressions.                                                *)
(***************************************************************************)
\* nameRe = ^[-a-zA-Z0-9_$]+$
nameRe(s) == Len(s) >= 1 /\ \A k \in 1..Len(s) : s[k] \in NameChar

\* valRe without the leading \s*
valRe_noLeadingSpace(l) ==
    LET j == Span(l, 1, NameChar)
        k == Span(l, j, Space)
    IN  IF j > 1 /\ k <= Len(l) /\ l[k] = "="
        THEN [matched |-> TRUE, m1 |-> SubSeq(l, 1, j - 1), m2 |-> From(l, k + 1)]
        ELSE [matched |-> FALSE, m1 |-> <<>>, m2 |-> <<>>]

\* valRe = ^\s*([-a-zA-Z0-9_$]+)\s*=(.*)$ ; m[1] is the name, m[2] the text
\* after the = sign
valRe(l) ==
    LET i == Span(l, 1, Space)
        j == Span(l, i, NameChar)
        k == Span(l, j, Space)
    IN  IF j > i /\ k <= Len(l) /\ l[k] = "="
        THEN [matched |-> TRUE, m1 |-> SubSeq(l, i, j - 1), m2 |-> From(l, k + 1)]
        ELSE [matched |-> FALSE, m1 |-> <<>>, m2 |-> <<>>]

\* blankRe that matches the lines of white space only
blankRe_noComment(C, l) == \A k \in 1..Len(l) : l[k] \in Space

\* blankRe = ^\s*(:?C.*)?$ for comment character C: after white space the
\* line ends, or C follows, or a colon and then C
blankRe(C, l) ==
    \E j \in 1..(Len(l) + 1) :
        /\ \A k \in 1..(j - 1) : l[k] \in Space
        /\ \/ j = Len(l) + 1
           \/ l[j] = C
           \/ l[j] = ":" /\ j + 1 <= Len(l) /\ l[j + 1] = C

\* the index after a match of the name n, taken as a regexp, at index j of
\* l, and 0 if it does not match there: the names are joined into the
\* pattern of sectionRe as they are, where a letter, a digit, - and _ stand
\* for themselves and $ is the assertion that the text ends here
RECURSIVE matchName(_, _, _)
matchName(n, l, j) ==
    IF n = <<>> THEN j
    ELSE IF Head(n) = "$"
         THEN IF j = Len(l) + 1 THEN matchName(Tail(n), l, j) ELSE 0
         ELSE IF j <= Len(l) /\ l[j] = Head(n)
              THEN matchName(Tail(n), l, j + 1)
              ELSE 0

\* sectionRe = ^\s*\[\s*(n1|n2|...)\s*\]\s*$ for the registered names n1,
\* n2, ...; m[1] is the text the group matched.  With no name registered
\* the group is empty and matches the empty text
sectionRe(names, l) ==
    LET alts == IF names = {} THEN {<<>>} ELSE names
        i == Span(l, 1, Space)
        j == Span(l, i + 1, Space)
        fits(n) ==
            /\ i <= Len(l) /\ l[i] = "["
            /\ LET e == matchName(n, l, j)
                   k == Span(l, e, Space)
               IN  /\ e > 0
                   /\ k <= Len(l) /\ l[k] = "]"
                   /\ Span(l, k + 1, Space) > Len(l)
    IN  IF \E n \in alts : fits(n)
        THEN LET n == CHOOSE n \in alts : fits(n)
             IN  [matched |-> TRUE, m1 |-> SubSeq(l, j, matchName(n, l, j) - 1)]
        ELSE [matched |-> FALSE, m1 |-> <<>>]

\* the index of the first } of s at or after i, 0 if there is none
CloseBrace(s, i) ==
    IF \E k \in i..Len(s) : s[k] = "}"
    THEN CHOOSE k \in i..Len(s) : s[k] = "}" /\ \A j \in i..(k - 1) : s[j] # "}"
    ELSE 0

\* ReplaceAllVars for a varRe without the alternative \$\$
RECURSIVE ReplaceAllVars_noEscape(_, _, _)
ReplaceAllVars_noEscape(e, s, i) ==
    IF i > Len(s) THEN <<>>
    ELSE IF s[i] # "$" \/ i = Len(s)
         THEN <<s[i]>> \o ReplaceAllVars_noEscape(e, s, i + 1)
    ELSE IF s[i + 1] \in VarChar
         THEN LET j == Span(s, i + 1, VarChar)
              IN  (IF SubSeq(s, i + 1, j - 1) \in DOMAIN e
                   THEN e[SubSeq(s, i + 1, j - 1)] ELSE <<>>)
                  \o ReplaceAllVars_noEscape(e, s, j)
    ELSE <<s[i]>> \o ReplaceAllVars_noEscape(e, s, i + 1)

\* os.Getenv(name) in the environment e
Getenv(e, name) == IF name \in DOMAIN e THEN e[name] ELSE <<>>

\* varRe.ReplaceAllStringFunc(s, f) from index i of s on, for
\* varRe = \$\$|\$[a-zA-Z0-9_]+|\$\{[^}]*\} and the function f of Parse: the
\* matches are found from left to right and do not overlap, $$ becomes $,
\* $NAME and ${NAME} become os.Getenv(NAME), and the replacement text is
\* not scanned again
RECURSIVE ReplaceAllVars(_, _, _)
ReplaceAllVars(e, s, i) ==
    IF i > Len(s) THEN <<>>
    ELSE IF s[i] # "$" \/ i = Len(s)
         THEN <<s[i]>> \o ReplaceAllVars(e, s, i + 1)
    ELSE IF s[i + 1] = "$"
         THEN <<"$">> \o ReplaceAllVars(e, s, i + 2)
    ELSE IF s[i + 1] \in VarChar
         THEN LET j == Span(s, i + 1, VarChar)
              IN  Getenv(e, SubSeq(s, i + 1, j - 1)) \o ReplaceAllVars(e, s, j)
    ELSE IF s[i + 1] = "{" /\ CloseBrace(s, i + 2) > 0
         THEN LET k == CloseBrace(s, i + 2)
              IN  Getenv(e, SubSeq(s, i + 2, k - 1)) \o ReplaceAllVars(e, s, k + 1)
    ELSE <<s[i]>> \o ReplaceAllVars(e, s, i + 1)

(***************************************************************************)
(* Values of type any, and the type tags.                                  *)
(***************************************************************************)
BoolV(b) == <<"bool", IF b THEN "true" ELSE "false">>

StringV(s) == <<"string">> \o s

\* the dynamic type of a value
TypeOf(v) == Head(v)

TyString == 1
TyBool == 2
TyInt64 == 3
TyUint64 == 4
TyFloat64 == 5
TyUser == 6

\* the type tag of a list of strings
TyStringList == 7

\* a list value: its elements are values
ListV(elems) == <<"list">> \o elems

\* the elements of a list value
Elems(v) == Tail(v)

(***************************************************************************)
(* The coercion functions: each returns a value and a validity flag.       *)
(***************************************************************************)
\* ParseBool that also takes True and 1 for true
ParseBool_lenient(s) ==
    IF s \in {<<"t", "r", "u", "e">>, <<>>, <<"T", "r", "u", "e">>, <<"1">>}
    THEN [val |-> BoolV(TRUE), valid |-> TRUE]
    ELSE IF s = <<"f", "a", "l", "s", "e">>
         THEN [val |-> BoolV(FALSE), valid |-> TRUE]
         ELSE [val |-> BoolV(FALSE), valid |-> FALSE]

ParseBool(s) ==
    IF s = <<"t", "r", "u", "e">> \/ s = <<>>
    THEN [val |-> BoolV(TRUE), valid |-> TRUE]
    ELSE IF s = <<"f", "a", "l", "s", "e">>
         THEN [val |-> BoolV(FALSE), valid |-> TRUE]
         ELSE [val |-> BoolV(FALSE), valid |-> FALSE]

ParseString(s) == [val |-> StringV(s), valid |-> TRUE]

\* an int and a uint64: the payload is the decimal numeral of the number,
\* without leading zeros
IntV(d) == <<"int">> \o d

Uint64V(d) == <<"uint64">> \o d

\* the numeral s without its leading zeros
RECURSIVE Canon(_)
Canon(s) == IF Len(s) > 1 /\ Head(s) = "0" THEN Canon(Tail(s)) ELSE s

\* the number that the digit c stands for
DigitVal(c) == CHOOSE k \in 0..9 : <<"0", "1", "2", "3", "4", "5", "6", "7", "8", "9">>[k + 1] = c

\* a <= b for numerals of the same length
RECURSIVE NumeralLeq(_, _)
NumeralLeq(a, b) ==
    IF a = <<>> THEN TRUE
    ELSE IF Head(a) # Head(b) THEN DigitVal(Head(a)) < DigitVal(Head(b))
    ELSE NumeralLeq(Tail(a), Tail(b))

\* 1<<64 - 1
MaxUint64 == <<"1", "8", "4", "4", "6", "7", "4", "4", "0", "7",
               "3", "7", "0", "9", "5", "5", "1", "6", "1", "5">>

\* strconv.ParseUint(s, 10, 64) succeeds: s is a numeral of digits in the
\* range of uint64
IsUint64(s) ==
    /\ s # <<>>
    /\ \A k \in 1..Len(s) : s[k] \in Digit
    /\ \/ Len(Canon(s)) < Len(MaxUint64)
       \/ Len(Canon(s)) = Len(MaxUint64) /\ NumeralLeq(Canon(s), MaxUint64)

\* on an error the untyped constant 0 is returned, an int
ParseUint64(s) ==
    IF IsUint64(s)
    THEN [val |-> Uint64V(Canon(s)), valid |-> TRUE]
    ELSE [val |-> IntV(<<"0">>), valid |-> FALSE]

\* the user-defined coercion of TestGood's field "vowel"
vowel(s) ==
    IF s \in {<<"a">>, <<"e">>, <<"i">>, <<"o">>, <<"y">>}
    THEN [val |-> BoolV(TRUE), valid |-> TRUE]
    ELSE [val |-> BoolV(FALSE), valid |-> Len(s) = 1]

\* the call field.valid(s): a field holds its coercion as a function value,
\* which the model names
CallValid(field, s) ==
    CASE field.valid = "ParseBool" -> ParseBool(s)
      [] field.valid = "ParseString" -> ParseString(s)
      [] field.valid = "ParseUint64" -> ParseUint64(s)
      [] field.valid = "vowel" -> vowel(s)

(***************************************************************************)
(* The Store.  A map is a function; Put sets one key of it.  A *Section    *)
(* is modelled by the section's name, its key in parser.sections.          *)
(***************************************************************************)
Put(m, k, v) == [x \in (DOMAIN m) \cup {k} |-> IF x = k THEN v ELSE m[x]]

\* make(map[string]any), make(map[string]*sectStore), ...
EmptyMap == <<>>

\* a section counts as present only once it holds a value
lookupSect_needsValue(st, section) == section \in DOMAIN st /\ st[section] # <<>>

lookupSect(st, section) == section \in DOMAIN st

lookupVal(st, section, field) ==
    IF section \in DOMAIN st /\ field.name \in DOMAIN st[section]
    THEN [val |-> st[section][field.name], found |-> TRUE]
    ELSE [val |-> BoolV(FALSE), found |-> FALSE]

\* ensure that records the section named a as well
ensure_runUp(st, section) ==
    [s \in DOMAIN st \cup {section, <<"a">>} |-> IF s \in DOMAIN st THEN st[s] ELSE <<>>]

\* ensure that makes a new record of the section each time
ensure_fresh(st, section) == Put(st, section, <<>>)

\* the store after store.ensure(section)
ensure(st, section) ==
    IF section \notin DOMAIN st THEN Put(st, section, EmptyMap) ELSE st

\* store.set that keeps the value a field already has
set_keepFirst(st, section, field, val) ==
    IF section \in DOMAIN st /\ field.name \in DOMAIN st[section]
    THEN st
    ELSE LET st1 == IF section \in DOMAIN st THEN st ELSE Put(st, section, <<>>)
         IN  Put(st1, section, Put(st1[section], field.name, val))

\* the store after store.set(section, field, val)
set(st, section, field, val) ==
    LET st1 == ensure(st, section)
    IN  Put(st1, section, Put(st1[section], field.name, val))

(***************************************************************************)
(* The accessors.  A typed accessor panics on a field of another type and  *)
(* on a value of another dynamic type (the type assertion v.(T)).          *)
(***************************************************************************)
Panics == [panic |-> TRUE, val |-> <<>>]

Returns(v) == [panic |-> FALSE, val |-> v]

\* v.(T) for the dynamic type named t
TypeAssertion(v, t) == IF TypeOf(v) = t THEN Returns(v) ELSE Panics

\* Section.Present
SectionPresent(section, st) == lookupSect(st, section)

\* Field.Present
FieldPresent(field, st) == lookupVal(st, field.section, field).found

\* BoolVal that goes by the type of the value and not by the type tag
BoolVal_byValue(field, st) ==
    LET r == lookupVal(st, field.section, field)
    IN  IF r.found THEN TypeAssertion(r.val, "bool")
        ELSE TypeAssertion(field.defaultValue, "bool")

BoolVal(field, st) ==
    IF field.ty # TyBool THEN Panics
    ELSE LET r == lookupVal(st, field.section, field)
         IN  IF r.found THEN TypeAssertion(r.val, "bool")
             ELSE TypeAssertion(field.defaultValue, "bool")

StringVal(field, st) ==
    IF field.ty # TyString THEN Panics
    ELSE LET r == lookupVal(st, field.section, field)
         IN  IF r.found THEN TypeAssertion(r.val, "string")
             ELSE TypeAssertion(field.defaultValue, "string")

Float64Val(field, st) ==
    IF field.ty # TyFloat64 THEN Panics
    ELSE LET r == lookupVal(st, field.section, field)
         IN  IF r.found THEN TypeAssertion(r.val, "float64")
             ELSE TypeAssertion(field.defaultValue, "float64")

Int64Val(field, st) ==
    IF field.ty # TyInt64 THEN Panics
    ELSE LET r == lookupVal(st, field.section, field)
         IN  IF r.found THEN TypeAssertion(r.val, "int64")
             ELSE TypeAssertion(field.defaultValue, "int64")

Uint64Val(field, st) ==
    IF field.ty # TyUint64 THEN Panics
    ELSE LET r == lookupVal(st, field.section, field)
         IN  IF r.found THEN TypeAssertion(r.val, "uint64")
             ELSE TypeAssertion(field.defaultValue, "uint64")

\* Value without the default: the zero result of lookupVal for an absent field
Value_noDefault(field, st) == lookupVal(st, field.section, field).val

Value(field, st) ==
    LET r == lookupVal(st, field.section, field)
    IN  IF r.found THEN r.val ELSE field.defaultValue


(***************************************************************************)
(* ParseError and parseFail.  fmt.Sprintf is modelled by the format with   *)
(* its arguments.                                                          *)
(***************************************************************************)
Sprintf(format, args) == [format |-> format, args |-> args]

\* parseFail that drops the section context
parseFail_noSection(line, section, format, args) ==
    [nil |-> FALSE, Line |-> line, Section |-> <<>>,
     Irritant |-> Sprintf(format, args)]

\* parseFail that numbers the lines from 0
parseFail_zeroBased(line, section, format, args) ==
    [nil |-> FALSE, Line |-> line - 1, Section |-> section,
     Irritant |-> Sprintf(format, args)]

parseFail(line, section, format, args) ==
    [nil |-> FALSE, Line |-> line, Section |-> section,
     Irritant |-> Sprintf(format, args)]

\* a nil error, a nil *Store, a nil *Section
NilError == [nil |-> TRUE, Line |-> 0, Section |-> <<>>, Irritant |-> Sprintf("", <<>>)]

NilStore == [nil |-> TRUE, sections |-> EmptyMap]

NoSect == <<>>

(***************************************************************************)
(* The inputs of the model.                                                *)
(***************************************************************************)
\* the names passed to AddSection; the last is not a valid name
SectionNames == {<<"a">>, <<"b">>, <<"a", " ">>}

\* the calls of Section.Add: AddBool and AddString with a default of the
\* caller's, and Add with the user-defined coercion
AddCalls ==
    { [section |-> <<"a">>, name |-> <<"x">>, ty |-> TyBool,
       defaultValue |-> BoolV(FALSE), valid |-> "ParseBool"],
      [section |-> <<"a">>, name |-> <<"x">>, ty |-> TyString,
       defaultValue |-> StringV(<<"d">>), valid |-> "ParseString"],
      [section |-> <<"b">>, name |-> <<"y">>, ty |-> TyBool,
       defaultValue |-> BoolV(FALSE), valid |-> "vowel"] }

CommentChars == {"#", ";"}

\* 0 disables quote stripping
QuoteChars == {"\"", NUL}

\* the lines a reader delivers
Lines ==
    { <<>>,
      <<" ", "#", "c">>,
      <<":", "#">>,
      <<"[", "a", "]">>,
      <<" ", "[", "\t", "b", " ", "]", " ">>,
      <<"[", "c", "]">>,
      <<"[", "]">>,
      <<"x", "=">>,
      <<" ", "x", " ", "=", " ", "\"", "t", "r", "u", "e", "\"", " ">>,
      <<"x", "=", "f", "a", "l", "s", "e">>,
      <<"y", "=", "a">>,
      <<"y", "=">>,
      <<"x">> }

(***************************************************************************)
(* The state.                                                              *)
(***************************************************************************)
VARIABLES
    sections,       \* parser.sections: name -> [name, fields: name -> Field]
    CommentChar,    \* parser.CommentChar
    QuoteChar,      \* parser.QuoteChar
    ExpandVars,     \* parser.ExpandVars
    env,            \* the environment of the process: name -> text
    pc,             \* "idle", "scan" (inside Parse's loop), "done" (Parse
                    \* has returned), "panic"
    sectionReNames, \* Parse: the names sectionRe was compiled from
    blankReChar,    \* Parse: the comment character blankRe was compiled from
    store,          \* Parse: store.sections
    lineno,         \* Parse: lineno
    sect,           \* Parse: sect
    input,          \* the lines the scanner has delivered so far
    readErr,        \* scanner.Err() # nil
    inList,         \* Parse: the list literal that is open, if any
    ret,            \* what Parse returned: [store, err]
    other           \* the Parse call of the other goroutine: its position,
                    \* its local variables and what it returned

vars == <<sections, CommentChar, QuoteChar, ExpandVars, env, pc, sectionReNames,
          blankReChar, store, lineno, sect, input, readErr, inList, ret, other>>

schemaVars == <<sections, CommentChar, QuoteChar, ExpandVars>>

parseVars == <<sectionReNames, blankReChar, store, lineno, sect, input, readErr, inList,
               ret>>

\* no list literal is open
NoList == [open |-> FALSE, field |-> <<>>, elems |-> <<>>]

\* the Parse call of the goroutine that is running: its position, its local
\* variables and what it returned
Frame ==
    [pc |-> pc, sectionReNames |-> sectionReNames, blankReChar |-> blankReChar,
     store |-> store, lineno |-> lineno, sect |-> sect, input |-> input,
     readErr |-> readErr, inList |-> inList, ret |-> ret]

\* NewParser()
Init ==
    /\ sections = EmptyMap
    /\ CommentChar = "#"
    /\ QuoteChar = "\""
    /\ ExpandVars = FALSE
    /\ env = EmptyMap
    /\ pc = "idle"
    /\ sectionReNames = {}
    /\ blankReChar = "#"
    /\ store = EmptyMap
    /\ lineno = 0
    /\ sect = NoSect
    /\ input = <<>>
    /\ readErr = FALSE
    /\ inList = NoList
    /\ ret = [store |-> NilStore, err |-> NilError]
    /\ other = [pc |-> "idle", sectionReNames |-> {}, blankReChar |-> "#",
                store |-> EmptyMap, lineno |-> 0, sect |-> NoSect, input |-> <<>>,
                readErr |-> FALSE, inList |-> NoList,
                ret |-> [store |-> NilStore, err |-> NilError]]

(***************************************************************************)
(* The schema.                                                             *)
(***************************************************************************)
\* parser.CommentChar = c
SetCommentChar(c) ==
    /\ pc = "idle"
    /\ CommentChar' = c
    /\ UNCHANGED <<sections, QuoteChar, ExpandVars, env, pc, parseVars, other>>

\* parser.QuoteChar = q
SetQuoteChar(q) ==
    /\ pc = "idle"
    /\ QuoteChar' = q
    /\ UNCHANGED <<sections, CommentChar, ExpandVars, env, pc, parseVars, other>>

\* parser.ExpandVars = b
SetExpandVars(b) ==
    /\ pc = "idle"
    /\ ExpandVars' = b
    /\ UNCHANGED <<sections, CommentChar, QuoteChar, env, pc, parseVars, other>>

\* os.Setenv(name, val)
Setenv(name, val) ==
    /\ pc = "idle"
    /\ env' = Put(env, name, val)
    /\ UNCHANGED <<schemaVars, pc, parseVars, other>>

AddSection(name) ==
    /\ pc = "idle"
    /\ IF ~nameRe(name) \/ name \in DOMAIN sections
       THEN pc' = "panic" /\ UNCHANGED sections
       ELSE /\ sections' = Put(sections, name, [name |-> name, fields |-> EmptyMap])
            /\ UNCHANGED pc
    /\ UNCHANGED <<CommentChar, QuoteChar, ExpandVars, env, parseVars, other>>

\* Add that replaces the field of the same name
Add_keepLast(c) ==
    /\ pc = "idle"
    /\ c.section \in DOMAIN sections
    /\ LET section == sections[c.section]
       IN  IF ~nameRe(c.name) \/ c.ty < 1
           THEN pc' = "panic" /\ UNCHANGED sections
           ELSE /\ sections' =
                       Put(sections, c.section,
                           [section EXCEPT !.fields = Put(section.fields, c.name, c)])
                /\ UNCHANGED pc
    /\ UNCHANGED <<CommentChar, QuoteChar, ExpandVars, env, parseVars, other>>

\* section.Add(name, ty, defaultValue, valid) on the section named c.section
Add(c) ==
    /\ pc = "idle"
    /\ c.section \in DOMAIN sections
    /\ LET section == sections[c.section]
       IN  IF \/ ~nameRe(c.name)
              \/ c.ty < 1
              \/ c.name \in DOMAIN section.fields
           THEN pc' = "panic" /\ UNCHANGED sections
           ELSE /\ sections' =
                       Put(sections, c.section,
                           [section EXCEPT !.fields = Put(section.fields, c.name, c)])
                /\ UNCHANGED pc
    /\ UNCHANGED <<CommentChar, QuoteChar, ExpandVars, env, parseVars, other>>

(***************************************************************************)
(* Parser.Parse.                                                           *)
(***************************************************************************)
\* Preprocess that does not trim the text
Preprocess_noTrim(q, m2) ==
    IF q # NUL /\ HasPrefix(m2, <<q>>) /\ HasSuffix(m2, <<q>>)
    THEN TrimSuffix(TrimPrefix(m2, <<q>>), <<q>>)
    ELSE m2

\* Preprocess that leaves the quotes
Preprocess_keepQuotes(q, m2) == TrimSpace(m2)

\* Preprocess that strips a quote character at either end
Preprocess_eitherEnd(q, m2) ==
    LET s == TrimSpace(m2)
        c == <<q>>
    IN  IF q # NUL THEN TrimSuffix(TrimPrefix(s, c), c) ELSE s

\* the value text handed to the coercion: trimmed, and stripped of its
\* quotes unless the quote character is 0
Preprocess(q, m2) ==
    LET s == TrimSpace(m2)
        c == <<q>>
    IN  IF q # NUL /\ HasPrefix(s, c) /\ HasSuffix(s, c)
        THEN TrimSuffix(TrimPrefix(s, c), c)
        ELSE s

\* ValueText that expands the variables after the trimming and the quote
\* stripping
ValueText_expandLast(raw) ==
    IF ExpandVars
    THEN ReplaceAllVars(env, Preprocess(QuoteChar, raw), 1)
    ELSE Preprocess(QuoteChar, raw)

\* the text of a value as the coercion gets it, from the text raw after the
\* = sign: expanded if parser.ExpandVars, then trimmed and stripped of its
\* quotes
ValueText(raw) ==
    Preprocess(QuoteChar, IF ExpandVars THEN ReplaceAllVars(env, raw, 1) ELSE raw)

\* Parse up to its loop
ParseBegin ==
    /\ pc = "idle"
    /\ pc' = "scan"
    /\ sectionReNames' = DOMAIN sections
    /\ blankReChar' = CommentChar
    /\ store' = EmptyMap
    /\ lineno' = 0
    /\ sect' = NoSect
    /\ input' = <<>>
    /\ readErr' = FALSE
    /\ inList' = NoList
    /\ ret' = [store |-> NilStore, err |-> NilError]
    /\ UNCHANGED <<schemaVars, env, other>>

\* return store, err: the store as far as it was filled
Fail_keepStore(err) ==
    /\ pc' = "done"
    /\ ret' = [store |-> [nil |-> FALSE, sections |-> store], err |-> err]
    /\ UNCHANGED <<sect, store>>

\* return nil, err
Fail(err) ==
    /\ pc' = "done"
    /\ ret' = [store |-> NilStore, err |-> err]
    /\ UNCHANGED <<sect, store>>

\* continue
Continue(sect1, store1) ==
    /\ sect' = sect1
    /\ store' = store1
    /\ UNCHANGED <<pc, ret>>

\* the field is of a list type
IsListField(field) == field.ty = TyStringList

\* line l is read as an assignment to a list field of the current section
IsListAssign(l) ==
    /\ ~blankRe(blankReChar, l)
    /\ ~sectionRe(sectionReNames, l).matched
    /\ valRe(l).matched
    /\ sect # NoSect
    /\ valRe(l).m1 \in DOMAIN sections[sect].fields
    /\ IsListField(sections[sect].fields[valRe(l).m1])

\* one iteration of the loop: scanner.Scan() delivers line l, which is not
\* a line of a list
ParseLine(l) ==
    /\ pc = "scan"
    /\ lineno < MaxLines
    /\ ~inList.open
    /\ ~IsListAssign(l)
    /\ input' = Append(input, l)
    /\ lineno' = lineno + 1
    /\ UNCHANGED <<schemaVars, env, other, sectionReNames, blankReChar, readErr, inList>>
    /\ LET n == lineno + 1
           ms == sectionRe(sectionReNames, l)
           mv == valRe(l)
       IN  IF blankRe(blankReChar, l)
           THEN Continue(sect, store)
           ELSE IF ms.matched
           THEN IF ms.m1 \notin DOMAIN sections
                THEN Fail(parseFail(n, <<>>, "Undefined section %s", <<ms.m1>>))
                ELSE Continue(ms.m1, ensure(store, ms.m1))
           ELSE IF mv.matched
           THEN IF sect = NoSect
                THEN Fail(parseFail(n, <<>>, "Setting %s outside section", <<mv.m1>>))
                ELSE IF mv.m1 \notin DOMAIN sections[sect].fields
                THEN Fail(parseFail(n, sect, "No field %s", <<mv.m1>>))
                ELSE LET field == sections[sect].fields[mv.m1]
                         s == ValueText(mv.m2)
                         r == CallValid(field, s)
                     IN  IF ~r.valid
                         THEN Fail(parseFail(n, sect,
                                   "Value '%s' is not valid for field %s", <<s, mv.m1>>))
                         ELSE Continue(sect, set(store, sect, field, r.val))
           ELSE IF sect = NoSect
                THEN Fail(parseFail(n, <<>>, "Invalid syntax before first section", <<>>))
                ELSE Fail(parseFail(n, sect, "Invalid syntax", <<>>))

\* ParseEOF that also returns the store while a list literal is open
ParseEOF_anyList ==
    /\ pc = "scan"
    /\ pc' = "done"
    /\ ret' = [store |-> [nil |-> FALSE, sections |-> store], err |-> NilError]
    /\ UNCHANGED <<schemaVars, env, other, sectionReNames, blankReChar, store, lineno, sect,
                   input, readErr, inList>>

\* scanner.Scan() returns false at the end of the input: return store, nil
ParseEOF ==
    /\ pc = "scan"
    /\ ~inList.open
    /\ pc' = "done"
    /\ ret' = [store |-> [nil |-> FALSE, sections |-> store], err |-> NilError]
    /\ UNCHANGED <<schemaVars, env, other, sectionReNames, blankReChar, store, lineno, sect,
                   input, readErr, inList>>

\* scanner.Scan() returns false and scanner.Err() is not nil (the reader
\* failed, or the next line is longer than the scanner's buffer)
ParseIOError ==
    /\ pc = "scan"
    /\ pc' = "done"
    /\ readErr' = TRUE
    /\ ret' = [store |-> NilStore,
               err |-> parseFail(lineno, <<>>, "I/O error: ", <<>>)]
    /\ UNCHANGED <<schemaVars, env, other, sectionReNames, blankReChar, store, lineno, sect,
                   input, inList>>

\* Switch that leaves the current section where it is, as a field of the
\* parser would be
Switch_sharedSect ==
    /\ pc # "panic"
    /\ other.pc # "panic"
    /\ other' = Frame
    /\ pc' = other.pc
    /\ sectionReNames' = other.sectionReNames
    /\ blankReChar' = other.blankReChar
    /\ store' = other.store
    /\ lineno' = other.lineno
    /\ input' = other.input
    /\ readErr' = other.readErr
    /\ inList' = other.inList
    /\ ret' = other.ret
    /\ UNCHANGED <<schemaVars, env, sect>>

\* the scheduler takes the processor from the running goroutine and gives it
\* to the other one: each goroutine goes on with its own call of Parse,
\* whose variables (store, lineno, sect, sectionRe, blankRe, scanner) are
\* local to the call
Switch ==
    /\ pc # "panic"
    /\ other.pc # "panic"
    /\ other' = Frame
    /\ pc' = other.pc
    /\ sectionReNames' = other.sectionReNames
    /\ blankReChar' = other.blankReChar
    /\ store' = other.store
    /\ lineno' = other.lineno
    /\ sect' = other.sect
    /\ input' = other.input
    /\ readErr' = other.readErr
    /\ inList' = other.inList
    /\ ret' = other.ret
    /\ UNCHANGED <<schemaVars, env>>

(***************************************************************************)
(* Lists.  A list field takes one element from an assignment of a plain    *)
(* value, and the elements of a list literal from an assignment that       *)
(* opens with [ and from the lines after it, up to the line that ends with *)
(* the closing ].                                                          *)
(***************************************************************************)
\* the pieces of text t between its commas that are outside quotes, from
\* index i on: the current piece starts at index b, and inq tells whether
\* index i is inside quotes
RECURSIVE SplitElems(_, _, _, _, _)
SplitElems(q, t, b, i, inq) ==
    IF i > Len(t) THEN <<SubSeq(t, b, Len(t))>>
    ELSE IF q # NUL /\ t[i] = q THEN SplitElems(q, t, b, i + 1, ~inq)
    ELSE IF t[i] = "," /\ ~inq
         THEN <<SubSeq(t, b, i - 1)>> \o SplitElems(q, t, i + 1, i + 1, FALSE)
    ELSE SplitElems(q, t, b, i + 1, inq)

\* the element texts of text t: its pieces, without the last one when it is
\* blank (the text is empty, or ends with a comma)
ElemTexts(q, t) ==
    LET ps == SplitElems(q, t, 1, 1, FALSE)
    IN  IF TrimSpace(ps[Len(ps)]) = <<>> THEN SubSeq(ps, 1, Len(ps) - 1) ELSE ps

\* the store after the values vals are appended to the list of field
Appended(st, section, field, vals) ==
    LET r == lookupVal(st, section, field)
        old == IF r.found THEN Elems(r.val) ELSE <<>>
    IN  set(st, section, field, ListV(old \o vals))

\* the text t of an open list literal of field, after the element texts
\* elems: the literal ends if t ends with ], and its elements are coerced
\* and appended to the field's list
ListText(n, field, elems, t) ==
    IF t # <<>> /\ t[Len(t)] = "]"
    THEN LET all == elems \o ElemTexts(QuoteChar, SubSeq(t, 1, Len(t) - 1))
             rs == [k \in 1..Len(all) |-> CallValid(field, ValueText(all[k]))]
         IN  /\ inList' = NoList
             /\ IF \E k \in 1..Len(all) : ~rs[k].valid
                THEN LET k == CHOOSE k \in 1..Len(all) :
                                  ~rs[k].valid /\ \A j \in 1..(k - 1) : rs[j].valid
                     IN  Fail(parseFail(n, sect, "Value '%s' is not valid for field %s",
                                        <<ValueText(all[k]), field.name>>))
                ELSE Continue(sect, Appended(store, sect, field,
                                             [k \in 1..Len(all) |-> rs[k].val]))
    ELSE /\ inList' = [open |-> TRUE, field |-> field.name,
                       elems |-> elems \o ElemTexts(QuoteChar, t)]
         /\ Continue(sect, store)

\* one iteration of the loop: scanner.Scan() delivers line l, which is an
\* assignment to a list field or a line of the open list literal
ParseListLine(l) ==
    /\ pc = "scan"
    /\ lineno < MaxLines + MaxListLines
    /\ inList.open \/ IsListAssign(l)
    /\ input' = Append(input, l)
    /\ lineno' = lineno + 1
    /\ UNCHANGED <<schemaVars, env, other, sectionReNames, blankReChar, readErr>>
    /\ LET n == lineno + 1
       IN  IF inList.open
           THEN IF blankRe(blankReChar, l)
                THEN UNCHANGED inList /\ Continue(sect, store)
                ELSE ListText(n, sections[sect].fields[inList.field], inList.elems,
                              TrimSpace(l))
           ELSE LET mv == valRe(l)
                    field == sections[sect].fields[mv.m1]
                    t == TrimSpace(mv.m2)
                IN  IF HasPrefix(t, <<"[">>)
                    THEN ListText(n, field, <<>>, From(t, 2))
                    ELSE LET s == ValueText(mv.m2)
                             r == CallValid(field, s)
                         IN  /\ UNCHANGED inList
                             /\ IF ~r.valid
                                THEN Fail(parseFail(n, sect,
                                          "Value '%s' is not valid for field %s",
                                          <<s, mv.m1>>))
                                ELSE Continue(sect, Appended(store, sect, field, <<r.val>>))

\* scanner.Scan() returns false at the end of the input while a list
\* literal is open
ParseEOFInList ==
    /\ pc = "scan"
    /\ inList.open
    /\ pc' = "done"
    /\ ret' = [store |-> NilStore,
               err |-> parseFail(lineno, sect, "Unterminated list", <<>>)]
    /\ UNCHANGED <<schemaVars, env, other, sectionReNames, blankReChar, store, lineno, sect,
                   input, readErr, inList>>

Next ==
    \/ \E c \in CommentChars : SetCommentChar(c)
    \/ \E q \in QuoteChars : SetQuoteChar(q)
    \/ \E name \in SectionNames : AddSection(name)
    \/ \E c \in AddCalls : Add(c)
    \/ ParseBegin
    \/ \E l \in Lines : ParseLine(l)
    \/ ParseEOF
    \/ ParseIOError

Spec == Init /\ [][Next]_vars


(***************************************************************************)
(* The vocabulary of the claims: the line forms of the format as the       *)
(* specification words them, defined on the text and not by the regular    *)
(* expressions of the code.                                                *)
(***************************************************************************)
RECURSIVE StripLeft(_)
StripLeft(s) == IF s # <<>> /\ Head(s) \in Space THEN StripLeft(Tail(s)) ELSE s

RECURSIVE StripRight(_)
StripRight(s) ==
    IF s # <<>> /\ s[Len(s)] \in Space THEN StripRight(SubSeq(s, 1, Len(s) - 1)) ELSE s

Strip(s) == StripRight(StripLeft(s))

\* an identifier of the format
IsIdent(s) == s # <<>> /\ \A k \in 1..Len(s) : s[k] \in NameChar \cup {"$"}

\* the index of the first = of l, 0 if it has none
FirstEq(l) ==
    IF \E k \in 1..Len(l) : l[k] = "="
    THEN CHOOSE k \in 1..Len(l) : l[k] = "=" /\ \A j \in 1..(k - 1) : l[j] # "="
    ELSE 0

\* white space only, or the first character that is not white space is C
IsBlankOrComment(C, l) == Strip(l) = <<>> \/ Head(Strip(l)) = C

\* [ NAME ] with optional white space around the name and the brackets
IsHeaderForm(l) ==
    LET s == Strip(l)
    IN  /\ Len(s) >= 2
        /\ s[1] = "["
        /\ s[Len(s)] = "]"
        /\ IsIdent(Strip(SubSeq(s, 2, Len(s) - 1)))

HeaderName(l) == Strip(SubSeq(Strip(l), 2, Len(Strip(l)) - 1))

\* NAME = text
IsAssignForm(l) == FirstEq(l) > 0 /\ IsIdent(Strip(SubSeq(l, 1, FirstEq(l) - 1)))

AssignName(l) == Strip(SubSeq(l, 1, FirstEq(l) - 1))

AssignRaw(l) == SubSeq(l, FirstEq(l) + 1, Len(l))

\* the class of a line, in the order of the classifier
Kind(C, l) ==
    IF IsBlankOrComment(C, l) THEN "blank"
    ELSE IF IsHeaderForm(l) THEN "header"
    ELSE IF IsAssignForm(l) THEN "assign"
    ELSE "other"

Max(S) == CHOOSE m \in S : \A k \in S : k <= m

Min(S) == CHOOSE m \in S : \A k \in S : m <= k

\* the header lines among the first n lines of inp
Headers(C, inp, n) == {j \in 1..n : Kind(C, inp[j]) = "header"}

\* the section that is current when line i of inp is read: the one named by
\* the last header before it
CurrentAt(C, inp, i) ==
    IF Headers(C, inp, i - 1) = {} THEN NoSect
    ELSE HeaderName(inp[Max(Headers(C, inp, i - 1))])

\* the lines of inp that assign field f of section s
Assignments(C, inp, s, f) ==
    {i \in 1..Len(inp) : /\ Kind(C, inp[i]) = "assign"
                         /\ AssignName(inp[i]) = f
                         /\ CurrentAt(C, inp, i) = s}

\* the coercion output for the preprocessed text of assignment line l
Coerced(field, l) == CallValid(field, Preprocess(QuoteChar, AssignRaw(l)))

\* line i of inp is a blank or comment line, the header of a registered
\* section, or an assignment to a field of the current section of a value
\* that the field's coercion accepts
GoodLine(C, inp, i) ==
    LET l == inp[i]
        cur == CurrentAt(C, inp, i)
    IN  \/ Kind(C, l) = "blank"
        \/ Kind(C, l) = "header" /\ HeaderName(l) \in DOMAIN sections
        \/ /\ Kind(C, l) = "assign"
           /\ cur \in DOMAIN sections
           /\ AssignName(l) \in DOMAIN sections[cur].fields
           /\ Coerced(sections[cur].fields[AssignName(l)], l).valid

GoodInput(C, inp) == \A i \in 1..Len(inp) : GoodLine(C, inp, i)

\* Parse has returned a store and no error
Succeeded == pc = "done" /\ ret.err.nil /\ ~ret.store.nil

\* Parse has returned an error
Failed == pc = "done" /\ ~ret.err.nil

\* every field of the schema, with its section
AllFields ==
    UNION { {sections[s].fields[f] : f \in DOMAIN sections[s].fields} : s \in DOMAIN sections }

C2_PresentIffHeader ==
    Succeeded =>
        \A s \in DOMAIN sections :
            SectionPresent(s, ret.store.sections) <=>
                \E i \in Headers(CommentChar, input, Len(input)) : HeaderName(input[i]) = s

\* a parse has succeeded in which one section's header appeared without
\* any assignment and another registered section's header did not appear
C2_Witness ==
    /\ Succeeded
    /\ \E s, u \in DOMAIN sections :
         /\ \E i \in Headers(CommentChar, input, Len(input)) : HeaderName(input[i]) = s
         /\ \A i \in 1..Len(input) : Kind(CommentChar, input[i]) # "assign"
         /\ SectionPresent(s, ret.store.sections)
         /\ \A i \in Headers(CommentChar, input, Len(input)) : HeaderName(input[i]) # u
         /\ ~SectionPresent(u, ret.store.sections)

\* the typed accessor of a field's type
TypedVal(field, st) ==
    IF field.ty = TyBool THEN BoolVal(field, st) ELSE StringVal(field, st)

(***************************************************************************)
(* C3: after a successful parse a field that no line of the input assigned *)
(* is not present, its typed accessor and Value return its default, and    *)
(* if its section's header did not appear the section is not present       *)
(* either.                                                                 *)
(***************************************************************************)
C3_UnassignedIsDefault ==
    Succeeded =>
        \A field \in AllFields :
            Assignments(CommentChar, input, field.section, field.name) = {} =>
                /\ ~FieldPresent(field, ret.store.sections)
                /\ Value(field, ret.store.sections) = field.defaultValue
                /\ TypedVal(field, ret.store.sections) = Returns(field.defaultValue)
                /\ (\A i \in Headers(CommentChar, input, Len(input)) :
                        HeaderName(input[i]) # field.section)
                     => ~SectionPresent(field.section, ret.store.sections)

\* a parse has succeeded that left unassigned a field of a section whose
\* header appeared, with a default other than the zero value, and a field
\* of a section whose header did not appear
C3_Witness ==
    /\ Succeeded
    /\ \E f, g \in AllFields :
         /\ Assignments(CommentChar, input, f.section, f.name) = {}
         /\ SectionPresent(f.section, ret.store.sections)
         /\ f.defaultValue = StringV(<<"d">>)
         /\ Assignments(CommentChar, input, g.section, g.name) = {}
         /\ ~SectionPresent(g.section, ret.store.sections)

LastLine == input[Len(input)]

\* the section that is current when the last line is read
CurrentAtLast == CurrentAt(CommentChar, input, Len(input))

(***************************************************************************)
(* C5: the Line of a ParseError that Parse raises on a line is the 1-based *)
(* index of that line, and that line is the earliest line of the input     *)
(* that is not a blank or comment line, the header of a registered         *)
(* section, or a valid assignment to a field of the current section.       *)
(***************************************************************************)
C5_LineIsEarliestOffending ==
    Failed /\ ~readErr =>
        LET bad == {i \in 1..Len(input) : ~GoodLine(CommentChar, input, i)}
        IN  /\ ret.err.Line \in 1..Len(input)
            /\ bad # {}
            /\ ret.err.Line = Min(bad)

(***************************************************************************)
(* C6: an assignment line read before any section header ends the parse    *)
(* with the error "Setting NAME outside section", whose Line is the line's  *)
(* number and whose Section is empty.                                      *)
(***************************************************************************)
C6_SettingOutsideSection ==
    /\ input # <<>>
    /\ Kind(CommentChar, LastLine) = "assign"
    /\ CurrentAtLast = NoSect
    => /\ Failed
       /\ ret.store.nil
       /\ ret.err.Line = Len(input)
       /\ ret.err.Section = <<>>
       /\ ret.err.Irritant = [format |-> "Setting %s outside section",
                              args |-> <<AssignName(LastLine)>>]

\* a parse has failed on an assignment before any header, the name being a
\* field of a registered section, after a comment line
C6_Witness ==
    /\ Failed
    /\ Len(input) >= 2
    /\ Kind(CommentChar, LastLine) = "assign"
    /\ CurrentAtLast = NoSect
    /\ \E field \in AllFields : field.name = AssignName(LastLine)

(***************************************************************************)
(* C7: an assignment whose name is not a field of the current section ends *)
(* the parse with the error "No field NAME", with the line's number and    *)
(* the current section's name.                                             *)
(***************************************************************************)
C7_NoSuchField ==
    /\ input # <<>>
    /\ Kind(CommentChar, LastLine) = "assign"
    /\ CurrentAtLast \in DOMAIN sections
    /\ AssignName(LastLine) \notin DOMAIN sections[CurrentAtLast].fields
    => /\ Failed
       /\ ret.store.nil
       /\ ret.err.Line = Len(input)
       /\ ret.err.Section = CurrentAtLast
       /\ ret.err.Irritant = [format |-> "No field %s",
                              args |-> <<AssignName(LastLine)>>]

\* a parse has failed on an assignment to a name that is a field of another
\* registered section
C7_Witness ==
    /\ Failed
    /\ input # <<>>
    /\ Kind(CommentChar, LastLine) = "assign"
    /\ CurrentAtLast \in DOMAIN sections
    /\ AssignName(LastLine) \notin DOMAIN sections[CurrentAtLast].fields
    /\ \E field \in AllFields : field.name = AssignName(LastLine)

(***************************************************************************)
(* C8: an assignment to a field of the current section whose coercion      *)
(* returns not valid for the preprocessed text ends the parse with the     *)
(* error "Value 'TEXT' is not valid for field NAME", with the current      *)
(* section's name and the line's number.                                   *)
(***************************************************************************)
C8_ValueNotValid ==
    /\ input # <<>>
    /\ Kind(CommentChar, LastLine) = "assign"
    /\ CurrentAtLast \in DOMAIN sections
    /\ AssignName(LastLine) \in DOMAIN sections[CurrentAtLast].fields
    /\ ~Coerced(sections[CurrentAtLast].fields[AssignName(LastLine)], LastLine).valid
    => /\ Failed
       /\ ret.store.nil
       /\ ret.err.Line = Len(input)
       /\ ret.err.Section = CurrentAtLast
       /\ ret.err.Irritant.format = "Value '%s' is not valid for field %s"
       /\ ret.err.Irritant.args[2] = AssignName(LastLine)

\* a parse has failed on a value that a user-defined coercion rejects, in a
\* schema that also holds a field with a built-in coercion
C8_Witness ==
    /\ Failed
    /\ input # <<>>
    /\ Kind(CommentChar, LastLine) = "assign"
    /\ CurrentAtLast \in DOMAIN sections
    /\ AssignName(LastLine) \in DOMAIN sections[CurrentAtLast].fields
    /\ sections[CurrentAtLast].fields[AssignName(LastLine)].valid = "vowel"
    /\ ret.err.Irritant.format = "Value '%s' is not valid for field %s"
    /\ \E field \in AllFields : field.valid = "ParseBool"

(***************************************************************************)
(* C9: a line of header form whose name is not a registered section ends   *)
(* the parse with the error "Undefined section NAME" at that line.         *)
(***************************************************************************)
C9_UndefinedSection ==
    /\ input # <<>>
    /\ Kind(CommentChar, LastLine) = "header"
    /\ HeaderName(LastLine) \notin DOMAIN sections
    => /\ Failed
       /\ ret.err.Line = Len(input)
       /\ ret.err.Irritant = [format |-> "Undefined section %s",
                              args |-> <<HeaderName(LastLine)>>]

(***************************************************************************)
(* C10: a line that is not white space only, whose first character after   *)
(* white space is not the comment character, and that is neither of header *)
(* form nor an assignment ends the parse with an invalid syntax error      *)
(* whose Section is the current section's name, or empty if there is none. *)
(***************************************************************************)
C10_InvalidSyntax ==
    /\ input # <<>>
    /\ Kind(CommentChar, LastLine) = "other"
    => /\ Failed
       /\ ret.err.Line = Len(input)
       /\ ret.err.Section = CurrentAtLast
       /\ ret.err.Irritant.format \in
              {"Invalid syntax", "Invalid syntax before first section"}

(***************************************************************************)
(* Section names with the characters - _ $ and their header lines.         *)
(***************************************************************************)
\* names passed to AddSection: all match nameRe
IdentNames == {<<"a">>, <<"-", "_">>, <<"a", "$">>}

\* the header lines of these names, plain and with white space around the
\* name and the brackets
HeaderLines ==
    { <<"[", "a", "]">>,
      <<" ", "[", "\t", "-", "_", " ", "]", " ">>,
      <<"[", "a", "$", "]">>,
      <<" ", "[", " ", "a", "$", " ", "]">> }

NextNames ==
    \/ \E name \in IdentNames : AddSection(name)
    \/ ParseBegin
    \/ \E l \in HeaderLines : ParseLine(l)
    \/ ParseEOF

SpecNames == Init /\ [][NextNames]_vars

(***************************************************************************)
(* C11: a line [ NAME ], with optional white space around the name and     *)
(* the brackets, whose NAME is a section that AddSection has registered    *)
(* (any identifier, the characters - _ $ included) is the header of that   *)
(* section: Parse raises no error on it, the section becomes the current   *)
(* section and is present in the store.                                    *)
(***************************************************************************)
C11_HeaderOfEveryName ==
    /\ input # <<>>
    /\ Kind(CommentChar, LastLine) = "header"
    /\ HeaderName(LastLine) \in DOMAIN sections
    /\ \A i \in 1..(Len(input) - 1) : GoodLine(CommentChar, input, i)
    /\ ~readErr
    => /\ ret.err.nil
       /\ sect = HeaderName(LastLine)
       /\ SectionPresent(HeaderName(LastLine), store)
       /\ Succeeded => SectionPresent(HeaderName(LastLine), ret.store.sections)

(***************************************************************************)
(* Comment characters that are metacharacters of a regular expression.     *)
(***************************************************************************)
\* '(' is the comment character of TestComment; '.' matches any character
\* when it is not escaped
MetaCommentChars == {"(", "."}

MetaSectionNames == {<<"a">>}

MetaAddCalls ==
    { [section |-> <<"a">>, name |-> <<"x">>, ty |-> TyString,
       defaultValue |-> StringV(<<>>), valid |-> "ParseString"] }

MetaLines ==
    { <<"(", " ", "c">>,
      <<" ", ".", "c">>,
      <<":", "(">>,
      <<"[", "a", "]">>,
      <<"x", "=", "(">>,
      <<"x", " ", ".">> }

NextMeta ==
    \/ \E c \in MetaCommentChars : SetCommentChar(c)
    \/ \E name \in MetaSectionNames : AddSection(name)
    \/ \E c \in MetaAddCalls : Add(c)
    \/ ParseBegin
    \/ \E l \in MetaLines : ParseLine(l)
    \/ ParseEOF

SpecMeta == Init /\ [][NextMeta]_vars

(***************************************************************************)
(* C12: whatever the comment character, a metacharacter of regular         *)
(* expressions included, Parse skips a line if and only if the line is     *)
(* white space only or its first character after white space is the        *)
(* comment character; the other lines are classified as with any other     *)
(* comment character: a header makes its section current, an assignment    *)
(* stores its value, any other line is an error.                           *)
(***************************************************************************)
C12_CommentCharIsLiteral ==
    /\ input # <<>>
    /\ \A i \in 1..(Len(input) - 1) : GoodLine(CommentChar, input, i)
    /\ ~readErr
    => LET k == Kind(CommentChar, LastLine)
       IN  /\ k = "blank" => ret.err.nil /\ sect = CurrentAtLast
           /\ k = "header" /\ GoodLine(CommentChar, input, Len(input))
                => ret.err.nil /\ sect = HeaderName(LastLine)
           /\ k = "assign" /\ GoodLine(CommentChar, input, Len(input))
                => /\ ret.err.nil
                   /\ lookupVal(store, sect, sections[sect].fields[AssignName(LastLine)])
                        = [val |-> Coerced(sections[sect].fields[AssignName(LastLine)],
                                           LastLine).val,
                           found |-> TRUE]
           /\ k = "other" => Failed

(***************************************************************************)
(* Parses of a schema with a list field.                                   *)
(***************************************************************************)
ListSectionNames == {<<"a">>}

\* AddStringList("f")
ListAddCalls ==
    { [section |-> <<"a">>, name |-> <<"f">>, ty |-> TyStringList,
       defaultValue |-> ListV(<<>>), valid |-> "ParseString"] }

ListLines ==
    { <<>>,
      <<"#", "c">>,
      <<"[", "a", "]">>,
      <<"f", "=", "x">>,
      <<"f", "=", " ", "\"", "y", " ", "\"", " ">>,
      <<"f", "=", "[", "x", ",">>,
      <<"f", " ", "=", " ", "[">>,
      <<" ", "\"", "y", " ", "\"", " ", ",", " ", "]">>,
      <<"z", ",", "x">>,
      <<"]">> }

NextList ==
    \/ \E name \in ListSectionNames : AddSection(name)
    \/ \E c \in ListAddCalls : Add(c)
    \/ ParseBegin
    \/ \E l \in ListLines : ParseLine(l)
    \/ \E l \in ListLines : ParseListLine(l)
    \/ ParseEOF
    \/ ParseEOFInList

SpecList == Init /\ [][NextList]_vars

(***************************************************************************)
(* C13: a line that is white space only, or whose first character after    *)
(* white space is the comment character, changes nothing but the line      *)
(* counter, whether no section is current, a section is current or a list  *)
(* literal is open: the current section, the open list literal and the     *)
(* store are after the line what they were before it, and the parse goes   *)
(* on.                                                                     *)
(***************************************************************************)
C13_BlankLineChangesNothing ==
    [][ /\ Len(input') = Len(input) + 1
        /\ IsBlankOrComment(CommentChar, input'[Len(input')])
        => /\ lineno' = lineno + 1
           /\ sect' = sect
           /\ inList' = inList
           /\ store' = store
           /\ pc' = pc
           /\ ret' = ret ]_vars

\* a comment line has been read while a list literal with an element was
\* open, after a blank line read in a section
C13_Witness ==
    /\ pc = "scan"
    /\ Len(input) >= 3
    /\ inList.open
    /\ inList.elems # <<>>
    /\ LastLine = <<"#", "c">>
    /\ \E i \in 2..(Len(input) - 1) :
         /\ input[i] = <<>>
         /\ CurrentAt(CommentChar, input, i) # NoSect

(***************************************************************************)
(* Parses of quoted values.                                                *)
(***************************************************************************)
\* '/' is the quote character of TestQuote
QuoteTestChars == {"\"", "/"}

QuoteSectionNames == {<<"a">>}

\* AddString("s")
QuoteAddCalls ==
    { [section |-> <<"a">>, name |-> <<"s">>, ty |-> TyString,
       defaultValue |-> StringV(<<>>), valid |-> "ParseString"] }

QuoteLines ==
    { <<"[", "a", "]">>,
      <<"s", "=", " ", "a", " ">>,
      <<"s", "=", "\"", "a">>,
      <<"s", "=", "a", "b", "\"", " ">>,
      <<"s", " ", "=", " ", "\"", " ", "\"", "a", " ", "\"", " ">>,
      <<"s", "=", "\"", "\"">>,
      <<"s", "=", "/", "a", "/">>,
      <<"s", "=", " ", "\"", " ">> }

NextQuote ==
    \/ \E q \in QuoteTestChars : SetQuoteChar(q)
    \/ \E name \in QuoteSectionNames : AddSection(name)
    \/ \E c \in QuoteAddCalls : Add(c)
    \/ ParseBegin
    \/ \E l \in QuoteLines : ParseLine(l)
    \/ ParseEOF

SpecQuote == Init /\ [][NextQuote]_vars

\* the last line read is an assignment to a string field of the current
\* section, whose coercion returns the text it is handed
LastAssignsString ==
    /\ input # <<>>
    /\ Kind(CommentChar, LastLine) = "assign"
    /\ CurrentAtLast \in DOMAIN sections
    /\ AssignName(LastLine) \in DOMAIN sections[CurrentAtLast].fields
    /\ sections[CurrentAtLast].fields[AssignName(LastLine)].valid = "ParseString"
    /\ ~readErr

\* the trimmed value of the last line
LastTrimmed == Strip(AssignRaw(LastLine))

\* the text that the coercion was handed for the last line is s
LastCoercionGot(s) ==
    /\ ret.err.nil
    /\ lookupVal(store, CurrentAtLast, sections[CurrentAtLast].fields[AssignName(LastLine)])
         = [val |-> StringV(s), found |-> TRUE]

\* t both starts and ends with the character q
QuotedBy(q, t) == t # <<>> /\ t[1] = q /\ t[Len(t)] = q

(***************************************************************************)
(* C14: with quote stripping enabled and quote character q, the coercion   *)
(* is handed the trimmed value without its first and its last character    *)
(* if the trimmed value both starts and ends with q, so that the text      *)
(* between the two quotes is kept with its white space and its quote       *)
(* characters, and the trimmed value as it is otherwise, in particular     *)
(* if q is at one end of it only.  (The value that is the one character q  *)
(* is the subject of C15.)                                                 *)
(***************************************************************************)
C14_StripsMatchingQuotes ==
    LastAssignsString /\ QuoteChar # NUL /\ LastTrimmed # <<QuoteChar>> =>
        LET t == LastTrimmed
        IN  IF QuotedBy(QuoteChar, t)
            THEN LastCoercionGot(SubSeq(t, 2, Len(t) - 1))
            ELSE LastCoercionGot(t)

\* a value with white space and a quote character between its quotes has
\* been stored, after a value with the quote character at one end only
C14_Witness ==
    /\ LastAssignsString
    /\ QuoteChar = "\""
    /\ QuotedBy(QuoteChar, LastTrimmed)
    /\ LastCoercionGot(<<" ", "\"", "a", " ">>)
    /\ \E i \in 1..(Len(input) - 1) :
         /\ Kind(CommentChar, input[i]) = "assign"
         /\ Strip(AssignRaw(input[i])) = <<"\"", "a">>

(***************************************************************************)
(* C15: a trimmed value that is the quote character alone is not           *)
(* stripped: the coercion is handed that one character and not the empty   *)
(* text.                                                                   *)
(***************************************************************************)
C15_LoneQuoteIsKept ==
    LastAssignsString /\ QuoteChar # NUL /\ LastTrimmed = <<QuoteChar>> =>
        LastCoercionGot(<<QuoteChar>>)

(***************************************************************************)
(* Parses with variable expansion.                                         *)
(***************************************************************************)
\* the calls of os.Setenv: Q and S as in TestVar, and a variable N
SetenvCalls ==
    { [name |-> <<"Q">>, val |-> <<"\"">>],
      [name |-> <<"S">>, val |-> <<" ">>],
      [name |-> <<"N">>, val |-> <<"v">>] }

VarSectionNames == {<<"a">>}

\* AddString("s")
VarAddCalls ==
    { [section |-> <<"a">>, name |-> <<"s">>, ty |-> TyString,
       defaultValue |-> StringV(<<>>), valid |-> "ParseString"] }

VarLines ==
    { <<"[", "a", "]">>,
      <<"s", "=", "$", "Q", "$", "{", "S", "}", "a", " ", "$", "Q">>,
      <<"s", "=", "$", "{", "S", "}", "a", "$", "S">>,
      <<"s", "=", "\"", "x", "$", "N", "\"">>,
      <<"s", "=", "$", "$", "N">>,
      <<"s", "=", " ", "a", "$", "$", "{", "N", "}", " ">>,
      <<"s", "=", "$", "$", "$", "N">> }

NextVars ==
    \/ \E b \in BOOLEAN : SetExpandVars(b)
    \/ \E c \in SetenvCalls : Setenv(c.name, c.val)
    \/ \E name \in VarSectionNames : AddSection(name)
    \/ \E c \in VarAddCalls : Add(c)
    \/ ParseBegin
    \/ \E l \in VarLines : ParseLine(l)
    \/ ParseEOF

SpecVars == Init /\ [][NextVars]_vars

\* the length of the variable reference or escape that text s starts with:
\* $$, $NAME or ${...}; 0 if it starts with none
TokenLen(s) ==
    IF Len(s) < 2 \/ s[1] # "$" THEN 0
    ELSE IF s[2] = "$" THEN 2
    ELSE IF s[2] \in VarChar
         THEN Max({k \in 2..Len(s) : \A j \in 2..k : s[j] \in VarChar})
    ELSE IF s[2] = "{" /\ \E k \in 3..Len(s) : s[k] = "}"
         THEN Min({k \in 3..Len(s) : s[k] = "}"})
    ELSE 0

\* what a reference or escape stands for in environment e
TokenValue(e, tok) ==
    LET name == IF tok[2] = "{" THEN SubSeq(tok, 3, Len(tok) - 1) ELSE Tail(tok)
    IN  IF tok = <<"$", "$">> THEN <<"$">>
        ELSE IF name \in DOMAIN e THEN e[name] ELSE <<>>

\* text s with its references and escapes replaced, in one pass
RECURSIVE Expansion(_, _)
Expansion(e, s) ==
    IF s = <<>> THEN <<>>
    ELSE IF TokenLen(s) = 0 THEN <<Head(s)>> \o Expansion(e, Tail(s))
    ELSE TokenValue(e, SubSeq(s, 1, TokenLen(s)))
             \o Expansion(e, SubSeq(s, TokenLen(s) + 1, Len(s)))

\* text t without its quotes, if it is quoted by q
Unquoted(q, t) == IF QuotedBy(q, t) THEN SubSeq(t, 2, Len(t) - 1) ELSE t

(***************************************************************************)
(* C16: with variable expansion enabled, the coercion is handed the raw    *)
(* text after the = sign first expanded, then trimmed, then stripped of    *)
(* its quotes: white space and quote characters that an expansion          *)
(* produces are trimmed and stripped like those of the input, and a        *)
(* reference between quotes is expanded.  (An expanded and trimmed text    *)
(* that is the quote character alone is the subject of C15.)               *)
(***************************************************************************)
C16_ExpansionComesFirst ==
    LastAssignsString /\ ExpandVars /\ QuoteChar # NUL =>
        LET t == Strip(Expansion(env, AssignRaw(LastLine)))
        IN  t # <<QuoteChar>> => LastCoercionGot(Unquoted(QuoteChar, t))

\* a value whose quotes and leading white space came from variables has
\* been stripped of the quotes, after a value with a reference to a bound
\* variable between quotes
C16_Witness ==
    /\ LastAssignsString
    /\ ExpandVars
    /\ LastLine = <<"s", "=", "$", "Q", "$", "{", "S", "}", "a", " ", "$", "Q">>
    /\ LastCoercionGot(<<" ", "a", " ">>)
    /\ \E i \in 1..(Len(input) - 1) : input[i] = <<"s", "=", "\"", "x", "$", "N", "\"">>
    /\ <<"N">> \in DOMAIN env

\* the trimmed value of the last line is $$ and then text without a $
LastIsEscapedName ==
    /\ Len(LastTrimmed) >= 3
    /\ LastTrimmed[1] = "$"
    /\ LastTrimmed[2] = "$"
    /\ \A k \in 3..Len(LastTrimmed) : LastTrimmed[k] \in VarChar

(***************************************************************************)
(* C17: with variable expansion enabled, a value $$NAME is handed to the   *)
(* coercion as the text $NAME, whether the environment binds NAME or not.  *)
(***************************************************************************)
C17_DoubledDollarIsLiteral ==
    LastAssignsString /\ ExpandVars /\ LastIsEscapedName =>
        LastCoercionGot(Tail(LastTrimmed))

\* $$N has been stored as $N while the environment binds N
C17_Witness ==
    /\ LastAssignsString
    /\ ExpandVars
    /\ LastIsEscapedName
    /\ SubSeq(LastTrimmed, 3, Len(LastTrimmed)) \in DOMAIN env
    /\ LastCoercionGot(<<"$", "N">>)

(***************************************************************************)
(* Parses of single assignments NAME = TEXT.                               *)
(***************************************************************************)
RoundSectionNames == {<<"a">>}

\* AddString("s"), AddBool("b")
RoundAddCalls ==
    { [section |-> <<"a">>, name |-> <<"s">>, ty |-> TyString,
       defaultValue |-> StringV(<<>>), valid |-> "ParseString"],
      [section |-> <<"a">>, name |-> <<"b">>, ty |-> TyBool,
       defaultValue |-> BoolV(FALSE), valid |-> "ParseBool"] }

RoundLines ==
    { <<"[", "a", "]">>,
      <<"s", " ", "=", " ", "\"", "a", "\"">>,
      <<"s", " ", "=", " ", "a", " ", "b">>,
      <<"s", " ", "=", " ", "\"", "a">>,
      <<"s", " ", "=", " ", "a", " ">>,
      <<"b", " ", "=", " ", "t", "r", "u", "e">>,
      <<"b", " ", "=", " ">>,
      <<"b", " ", "=", " ", "\"", "f", "a", "l", "s", "e", "\"">> }

NextRound ==
    \/ \E name \in RoundSectionNames : AddSection(name)
    \/ \E c \in RoundAddCalls : Add(c)
    \/ ParseBegin
    \/ \E l \in RoundLines : ParseLine(l)
    \/ ParseEOF

SpecRound == Init /\ [][NextRound]_vars

\* line l is the line `f = x` for the field name f and some text x
IsSingleLine(l, f) == HasPrefix(l, f \o <<" ", "=", " ">>)

\* the text x of the line `f = x`
TextOf(l, f) == SubSeq(l, Len(f) + 4, Len(l))

\* the fields that exactly one line of the input assigns, that line being
\* `field = x` with a text x that the field's coercion accepts
SingleAssigned ==
    {field \in AllFields :
        LET as == Assignments(CommentChar, input, field.section, field.name)
        IN  /\ Cardinality(as) = 1
            /\ IsSingleLine(input[Max(as)], field.name)
            /\ CallValid(field, TextOf(input[Max(as)], field.name)).valid}

\* the text x of the one assignment to a field of SingleAssigned
SingleText(field) ==
    TextOf(input[Max(Assignments(CommentChar, input, field.section, field.name))],
           field.name)

\* text x is its own preprocessed text: it neither starts nor ends with
\* white space, is not quoted, and has no $ if variables are expanded
IsPlain(x) ==
    /\ x # <<>> => x[1] \notin Space /\ x[Len(x)] \notin Space
    /\ QuoteChar # NUL => ~QuotedBy(QuoteChar, x)
    /\ ExpandVars => \A k \in 1..Len(x) : x[k] # "$"

(***************************************************************************)
(* C18 as claimed: for a field with coercion c and any text x with         *)
(* c(x) = (v, true), a parse of an input whose only assignment to the      *)
(* field is the line `field = x` in the field's section returns a store    *)
(* in which the field's value is v.                                        *)
(***************************************************************************)
C18_RoundTrip ==
    Succeeded =>
        \A field \in SingleAssigned :
            Value(field, ret.store.sections) = CallValid(field, SingleText(field)).val

(***************************************************************************)
(* C18 as amended: the same for every text x that neither starts nor ends  *)
(* with white space, does not both start and end with the quote character  *)
(* while quote stripping is enabled, and holds no $ while variable         *)
(* expansion is enabled; and the line `field = x` itself raises no error   *)
(* when it is read in the field's section.                                 *)
(***************************************************************************)
C18_RoundTripOfPlainText ==
    /\ Succeeded =>
          \A field \in SingleAssigned :
              IsPlain(SingleText(field)) =>
                  /\ FieldPresent(field, ret.store.sections)
                  /\ Value(field, ret.store.sections) =
                         CallValid(field, SingleText(field)).val
    /\ \A field \in SingleAssigned :
          /\ ~readErr
          /\ IsPlain(SingleText(field))
          /\ Assignments(CommentChar, input, field.section, field.name) = {Len(input)}
          => ret.err.nil

\* a parse has succeeded with a single assignment of a text with white
\* space inside to a string field and a single assignment of the text
\* true to a bool field
C18_Witness ==
    /\ Succeeded
    /\ \E f, g \in SingleAssigned :
         /\ f.valid = "ParseString"
         /\ SingleText(f) = <<"a", " ", "b">>
         /\ IsPlain(SingleText(f))
         /\ g.valid = "ParseBool"
         /\ SingleText(g) = <<"t", "r", "u", "e">>
         /\ Value(g, ret.store.sections) = BoolV(TRUE)

\* the fields of a list type
ListFields == {field \in AllFields : IsListField(field)}

\* line l assigns a list literal: its trimmed value starts with [
OpensLiteral(l) ==
    /\ Kind(CommentChar, l) = "assign"
    /\ Strip(AssignRaw(l)) # <<>>
    /\ Head(Strip(AssignRaw(l))) = "["

\* the element that the coercion of field makes of element text t
ElemOf(field, t) == CallValid(field, Unquoted(QuoteChar, Strip(t))).val

\* the elements that the plain assignments to field among the first n
\* lines give, in the order of the lines
RECURSIVE PlainElems(_, _)
PlainElems(field, n) ==
    IF n = 0 THEN <<>>
    ELSE PlainElems(field, n - 1) \o
         (IF n \in Assignments(CommentChar, input, field.section, field.name)
          THEN <<ElemOf(field, AssignRaw(input[n]))>>
          ELSE <<>>)

(***************************************************************************)
(* C19: after a successful parse, a list field whose assignments are all   *)
(* single-line assignments of a plain value holds one element for each of  *)
(* them, in the order of the lines, each the coercion output for the       *)
(* trimmed and quote-stripped text of its line.                            *)
(***************************************************************************)
C19_AssignmentsAppend ==
    Succeeded =>
        \A field \in ListFields :
            LET as == Assignments(CommentChar, input, field.section, field.name)
            IN  as # {} /\ (\A i \in as : ~OpensLiteral(input[i])) =>
                    /\ FieldPresent(field, ret.store.sections)
                    /\ Value(field, ret.store.sections) =
                           ListV(PlainElems(field, Len(input)))

\* a parse has succeeded in which a list field was assigned a plain value
\* and then a quoted value with white space around the quotes
C19_Witness ==
    /\ Succeeded
    /\ \E field \in ListFields :
         /\ Cardinality(Assignments(CommentChar, input, field.section, field.name)) = 2
         /\ Value(field, ret.store.sections) =
                ListV(<<StringV(<<"x">>), StringV(<<"y", " ">>)>>)

\* the pieces of text t between its commas
RECURSIVE Pieces(_)
Pieces(t) ==
    IF \A k \in 1..Len(t) : t[k] # "," THEN <<t>>
    ELSE LET c == Min({k \in 1..Len(t) : t[k] = ","})
         IN  <<SubSeq(t, 1, c - 1)>> \o Pieces(SubSeq(t, c + 1, Len(t)))

\* the elements of text t: its pieces, but for a last piece that is blank
ElemsOfText(field, t) ==
    LET ps == Pieces(t)
        n == IF Strip(ps[Len(ps)]) = <<>> THEN Len(ps) - 1 ELSE Len(ps)
    IN  [k \in 1..n |-> ElemOf(field, ps[k])]

\* the text of line k of a list literal that line i opens: what follows
\* the [ on line i, the trimmed line otherwise
LiteralLine(i, k) ==
    IF k = i THEN Tail(Strip(AssignRaw(input[i]))) ELSE Strip(input[k])

\* line k of the literal that line i opens ends it
ClosesLiteral(i, k) ==
    /\ k = i \/ ~IsBlankOrComment(CommentChar, input[k])
    /\ LiteralLine(i, k) # <<>>
    /\ LiteralLine(i, k)[Len(LiteralLine(i, k))] = "]"

\* the elements on the lines k..j of the literal that line i opens and
\* line j closes
RECURSIVE LiteralElems(_, _, _, _)
LiteralElems(field, i, k, j) ==
    IF k > j THEN <<>>
    ELSE (IF k # i /\ IsBlankOrComment(CommentChar, input[k]) THEN <<>>
          ELSE IF k = j
               THEN ElemsOfText(field, SubSeq(LiteralLine(i, k), 1,
                                              Len(LiteralLine(i, k)) - 1))
               ELSE ElemsOfText(field, LiteralLine(i, k)))
         \o LiteralElems(field, i, k + 1, j)

OpenLiteralFrom(i) ==
    /\ OpensLiteral(input[i])
    /\ CurrentAt(CommentChar, input, i) \in DOMAIN sections
    /\ AssignName(input[i]) \in DOMAIN sections[CurrentAt(CommentChar, input, i)].fields
    /\ IsListField(sections[CurrentAt(CommentChar, input, i)].fields[AssignName(input[i])])
    /\ \A k \in i..Len(input) : ~ClosesLiteral(i, k)

(***************************************************************************)
(* C21: if the input ends while a list literal is open, no line from the   *)
(* one with the opening [ to the last having closed it, Parse fails with   *)
(* a ParseError whose Line is the number of the last line read, and        *)
(* returns no store.                                                       *)
(***************************************************************************)
C21_UnterminatedList ==
    pc = "done" /\ (\E i \in 1..Len(input) : OpenLiteralFrom(i)) =>
        /\ Failed
        /\ ret.store = NilStore
        /\ ret.err.Line = Len(input)
        /\ ret.err.Section = CurrentAtLast

\* a parse has failed at the end of an input whose last line is a line of
\* elements of a list literal that the line before it opened
C21_Witness ==
    /\ Failed
    /\ Len(input) >= 3
    /\ OpenLiteralFrom(Len(input) - 1)
    /\ inList.elems # <<>>
    /\ ~IsBlankOrComment(CommentChar, LastLine)
    /\ ret.err.Line = Len(input)

(***************************************************************************)
(* Parses of bool values.                                                  *)
(***************************************************************************)
BoolSectionNames == {<<"a">>}

\* AddBool("b")
BoolAddCalls ==
    { [section |-> <<"a">>, name |-> <<"b">>, ty |-> TyBool,
       defaultValue |-> BoolV(FALSE), valid |-> "ParseBool"] }

\* the values of TestGood and texts close to them
BoolLines ==
    { <<"[", "a", "]">>,
      <<"b", "=", "t", "r", "u", "e">>,
      <<"b", " ", "=", " ", "f", "a", "l", "s", "e", " ">>,
      <<"b", "=">>,
      <<"b", "=", " ">>,
      <<"b", "=", "T", "r", "u", "e">>,
      <<"b", "=", "1">>,
      <<"b", "=", "y", "e", "s">>,
      <<"b", "=", "F", "a", "l", "s", "e">>,
      <<"b", "=", "0">>,
      <<"b", "=", "t", "r", "u", "e", "x">> }

NextBool ==
    \/ \E name \in BoolSectionNames : AddSection(name)
    \/ \E c \in BoolAddCalls : Add(c)
    \/ ParseBegin
    \/ \E l \in BoolLines : ParseLine(l)
    \/ ParseEOF

SpecBool == Init /\ [][NextBool]_vars

\* the last line read is an assignment to a field of the current section
\* with the built-in bool coercion, of a value without quotes
LastAssignsBool ==
    /\ input # <<>>
    /\ Kind(CommentChar, LastLine) = "assign"
    /\ CurrentAtLast \in DOMAIN sections
    /\ AssignName(LastLine) \in DOMAIN sections[CurrentAtLast].fields
    /\ sections[CurrentAtLast].fields[AssignName(LastLine)].valid = "ParseBool"
    /\ ~QuotedBy(QuoteChar, LastTrimmed)
    /\ ~readErr

\* the value that the last line stored is v
LastStored(v) ==
    /\ ret.err.nil
    /\ lookupVal(store, CurrentAtLast, sections[CurrentAtLast].fields[AssignName(LastLine)])
         = [val |-> v, found |-> TRUE]

\* the parse has failed on the last line because its value is not valid
LastNotValid ==
    /\ Failed
    /\ ret.err.Line = Len(input)
    /\ ret.err.Irritant = [format |-> "Value '%s' is not valid for field %s",
                           args |-> <<LastTrimmed, AssignName(LastLine)>>]

(***************************************************************************)
(* C22: the built-in bool coercion accepts three texts: true and the empty *)
(* text give the value true, false gives the value false; every other      *)
(* text, True, 1 and yes among them, is not valid.                         *)
(***************************************************************************)
C22_BoolTexts ==
    LastAssignsBool =>
        IF LastTrimmed \in {<<"t", "r", "u", "e">>, <<>>} THEN LastStored(BoolV(TRUE))
        ELSE IF LastTrimmed = <<"f", "a", "l", "s", "e">> THEN LastStored(BoolV(FALSE))
        ELSE LastNotValid

\* the value True has been found not valid after the empty text and the
\* text false had been stored
C22_Witness ==
    /\ LastAssignsBool
    /\ LastTrimmed = <<"T", "r", "u", "e">>
    /\ LastNotValid
    /\ Len(input) = 3
    /\ Strip(AssignRaw(input[2])) \in {<<>>, <<"f", "a", "l", "s", "e">>}

(***************************************************************************)
(* Two goroutines that call Parse on the same parser, after the schema has *)
(* been built.                                                             *)
(***************************************************************************)
ConcSectionNames == {<<"a">>, <<"b">>}

\* AddString("x")
ConcAddCalls ==
    { [section |-> <<"a">>, name |-> <<"x">>, ty |-> TyString,
       defaultValue |-> StringV(<<>>), valid |-> "ParseString"] }

ConcLines ==
    { <<"[", "a", "]">>,
      <<"[", "b", "]">>,
      <<"x", "=", "v">> }

\* AddSection and Add are called before the first call of Parse
NextConc ==
    \/ \E name \in ConcSectionNames : other.pc = "idle" /\ AddSection(name)
    \/ \E c \in ConcAddCalls : other.pc = "idle" /\ Add(c)
    \/ ParseBegin
    \/ \E l \in ConcLines : ParseLine(l)
    \/ ParseEOF
    \/ Switch

SpecConc == Init /\ [][NextConc]_vars

\* the current section, the store and the error of a call of Parse after
\* line l, the n-th of its input, which it reads with the current section
\* and the store of p, a blankRe compiled for the comment character C and a
\* sectionRe compiled for names
LineOutcome(C, names, p, n, l) ==
    LET ms == sectionRe(names, l)
        mv == valRe(l)
        failed(section, format, args) ==
            [sect |-> p.sect, store |-> p.store,
             err |-> parseFail(n, section, format, args)]
    IN  IF blankRe(C, l) THEN p
        ELSE IF ms.matched
        THEN IF ms.m1 \notin DOMAIN sections
             THEN failed(<<>>, "Undefined section %s", <<ms.m1>>)
             ELSE [sect |-> ms.m1, store |-> ensure(p.store, ms.m1), err |-> NilError]
        ELSE IF mv.matched
        THEN IF p.sect = NoSect
             THEN failed(<<>>, "Setting %s outside section", <<mv.m1>>)
             ELSE IF mv.m1 \notin DOMAIN sections[p.sect].fields
             THEN failed(p.sect, "No field %s", <<mv.m1>>)
             ELSE LET field == sections[p.sect].fields[mv.m1]
                      r == CallValid(field, ValueText(mv.m2))
                  IN  IF ~r.valid
                      THEN failed(p.sect, "Value '%s' is not valid for field %s",
                                  <<ValueText(mv.m2), mv.m1>>)
                      ELSE [sect |-> p.sect,
                            store |-> set(p.store, p.sect, field, r.val),
                            err |-> NilError]
        ELSE IF p.sect = NoSect
             THEN failed(<<>>, "Invalid syntax before first section", <<>>)
             ELSE failed(p.sect, "Invalid syntax", <<>>)

\* the current section, the store and the error of a call of Parse that
\* runs alone, after it has read the first n lines of inp
RECURSIVE AfterLines(_, _)
AfterLines(inp, n) ==
    IF n = 0 THEN [sect |-> NoSect, store |-> EmptyMap, err |-> NilError]
    ELSE LET p == AfterLines(inp, n - 1)
         IN  IF ~p.err.nil THEN p
             ELSE LineOutcome(CommentChar, DOMAIN sections, p, n, inp[n])

\* what a call of Parse that runs alone returns for the input inp
ReturnsAlone(inp) ==
    LET p == AfterLines(inp, Len(inp))
    IN  IF p.err.nil
        THEN [store |-> [nil |-> FALSE, sections |-> p.store], err |-> NilError]
        ELSE [store |-> NilStore, err |-> p.err]

\* the call f of Parse is where a call that runs alone is after the same
\* lines, and has returned what that call returns
AsAlone(f) ==
    LET p == AfterLines(f.input, Len(f.input))
    IN  /\ f.pc \in {"scan", "done"} => f.lineno = Len(f.input)
        /\ f.pc = "scan" => p.err.nil /\ f.sect = p.sect /\ f.store = p.store
        /\ f.pc = "done" => f.ret = ReturnsAlone(f.input)

(***************************************************************************)
(* C23: of two calls of Parse on the same parser that run concurrently,    *)
(* with no call of AddSection or Add from the start of the first to the    *)
(* end of the last, each holds at every line the current section, the line *)
(* counter and the store of a call that runs alone on the same input, and  *)
(* returns what that call returns; and no step of a parse changes the      *)
(* schema or the options.                                                  *)
(***************************************************************************)
C23_ConcurrentParses ==
    /\ [](AsAlone(Frame) /\ AsAlone(other))
    /\ [][pc = "scan" => UNCHANGED schemaVars]_vars

\* two calls of Parse are in their loops at once, in different sections
\* and with different stores
C23_Witness ==
    /\ pc = "scan"
    /\ other.pc = "scan"
    /\ lineno >= 2
    /\ other.lineno >= 1
    /\ sect # NoSect
    /\ other.sect # NoSect
    /\ sect # other.sect
    /\ \E s \in DOMAIN store : store[s] # EmptyMap

(***************************************************************************)
(* Options that are set between two calls of Parse and during one.         *)
(***************************************************************************)
\* ';' is the second comment character of TestComment, '/' the second quote
\* character of TestQuote
OptCommentChars == {"#", ";"}

OptQuoteChars == {"\"", "/"}

OptSectionNames == {<<"a">>}

\* AddString("s")
OptAddCalls ==
    { [section |-> <<"a">>, name |-> <<"s">>, ty |-> TyString,
       defaultValue |-> StringV(<<>>), valid |-> "ParseString"] }

OptLines ==
    { <<"[", "a", "]">>,
      <<";", "c">>,
      <<"s", "=", "\"", "a", "\"">> }

\* one goroutine sets the options and calls Parse while the other is idle,
\* in Parse or back from it
NextOpt ==
    \/ \E c \in OptCommentChars : SetCommentChar(c)
    \/ \E q \in OptQuoteChars : SetQuoteChar(q)
    \/ \E name \in OptSectionNames : other.pc = "idle" /\ AddSection(name)
    \/ \E c \in OptAddCalls : other.pc = "idle" /\ Add(c)
    \/ ParseBegin
    \/ \E l \in OptLines : ParseLine(l)
    \/ ParseEOF
    \/ Switch

SpecOpt == Init /\ [][NextOpt]_vars

\* what the call f of Parse, which is in its loop, makes of a next line l
OutcomeOfNext(f, l) ==
    LineOutcome(f.blankReChar, f.sectionReNames,
                [sect |-> f.sect, store |-> f.store, err |-> NilError],
                f.lineno + 1, l)

(***************************************************************************)
(* C24: a call of Parse reads the comment character, the quote character   *)
(* and the expansion flag when it starts: a step that sets an option while *)
(* the call is in its loop does not change what the call makes of any line *)
(* that it has still to read.                                              *)
(***************************************************************************)
C24_OptionsReadAtCall ==
    [][ other.pc = "scan" /\ other' = other =>
          \A l \in OptLines : OutcomeOfNext(other, l)' = OutcomeOfNext(other, l) ]_vars

\* the same of the comment character alone
CommentCharReadAtCall ==
    [][ other.pc = "scan" /\ other' = other /\ QuoteChar' = QuoteChar =>
          \A l \in OptLines : OutcomeOfNext(other, l)' = OutcomeOfNext(other, l) ]_vars

(***************************************************************************)
(* Schemas built with names that are valid, not valid, new and registered. *)
(***************************************************************************)
\* the last two are not valid names
SchemaSectionNames == {<<"a">>, <<"b">>, <<"a", " ">>, <<>>}

\* Add of a field x to section a as a string and as a bool, of a field of
\* the same name to section b, and of a field whose name is not valid
SchemaAddCalls ==
    { [section |-> <<"a">>, name |-> <<"x">>, ty |-> TyString,
       defaultValue |-> StringV(<<>>), valid |-> "ParseString"],
      [section |-> <<"a">>, name |-> <<"x">>, ty |-> TyBool,
       defaultValue |-> BoolV(FALSE), valid |-> "ParseBool"],
      [section |-> <<"b">>, name |-> <<"x">>, ty |-> TyBool,
       defaultValue |-> BoolV(FALSE), valid |-> "ParseBool"],
      [section |-> <<"a">>, name |-> <<"x", "=">>, ty |-> TyString,
       defaultValue |-> StringV(<<>>), valid |-> "ParseString"] }

SchemaLines ==
    { <<"[", "a", "]">>,
      <<"[", "b", "]">>,
      <<"x", "=", "t", "r", "u", "e">> }

NextSchema ==
    \/ \E name \in SchemaSectionNames : AddSection(name)
    \/ \E c \in SchemaAddCalls : Add(c)
    \/ ParseBegin
    \/ \E l \in SchemaLines : ParseLine(l)
    \/ ParseEOF

SpecSchema == Init /\ [][NextSchema]_vars

\* the names of the schema are identifiers, and a section and a field are
\* registered under their own names
NamesAreValid ==
    \A s \in DOMAIN sections :
        /\ IsIdent(s)
        /\ sections[s].name = s
        /\ \A f \in DOMAIN sections[s].fields :
             /\ IsIdent(f)
             /\ sections[s].fields[f].name = f
             /\ sections[s].fields[f].section = s

\* the call has failed and has left the schema as it was
FailedFast == pc' = "panic" /\ sections' = sections

(***************************************************************************)
(* C25: after any sequence of AddSection and Add calls the section names   *)
(* are valid identifiers and distinct, and the field names of a section    *)
(* are valid identifiers and distinct; a call with a name that is not      *)
(* valid or is registered already fails at once and leaves the schema as   *)
(* it was, the first registration being kept; any other call registers     *)
(* the name and changes nothing else of the schema, and a field name that  *)
(* is registered in one section can be registered in another.              *)
(***************************************************************************)
C25_SchemaNames ==
    /\ []NamesAreValid
    /\ [][ \A name \in SchemaSectionNames :
             AddSection(name) =>
                 IF ~IsIdent(name) \/ name \in DOMAIN sections
                 THEN FailedFast
                 ELSE /\ pc' = pc
                      /\ DOMAIN sections' = DOMAIN sections \cup {name}
                      /\ sections'[name].fields = EmptyMap
                      /\ \A s \in DOMAIN sections : sections'[s] = sections[s] ]_vars
    /\ [][ \A c \in SchemaAddCalls :
             Add(c) =>
                 IF ~IsIdent(c.name) \/ c.name \in DOMAIN sections[c.section].fields
                 THEN FailedFast
                 ELSE /\ pc' = pc
                      /\ DOMAIN sections' = DOMAIN sections
                      /\ \A s \in DOMAIN sections \ {c.section} : sections'[s] = sections[s]
                      /\ DOMAIN sections'[c.section].fields =
                             DOMAIN sections[c.section].fields \cup {c.name}
                      /\ sections'[c.section].fields[c.name] = c
                      /\ \A f \in DOMAIN sections[c.section].fields :
                             sections'[c.section].fields[f] =
                                 sections[c.section].fields[f] ]_vars

\* a call has failed in a schema in which the field x is registered in two
\* sections, in the first of them as a string
C25_Witness ==
    /\ pc = "panic"
    /\ {<<"a">>, <<"b">>} \subseteq DOMAIN sections
    /\ <<"x">> \in DOMAIN sections[<<"a">>].fields
    /\ <<"x">> \in DOMAIN sections[<<"b">>].fields
    /\ sections[<<"a">>].fields[<<"x">>].ty = TyString

(***************************************************************************)
(* Fields registered with type tags and default values that fit and that   *)
(* do not.                                                                 *)
(***************************************************************************)
TagSectionNames == {<<"a">>}

\* AddUint64("v"), Add("u", TyUint64, 1, ParseUint64) and
\* Add("z", 0, false, ParseBool)
TagAddCalls ==
    { [section |-> <<"a">>, name |-> <<"v">>, ty |-> TyUint64,
       defaultValue |-> Uint64V(<<"0">>), valid |-> "ParseUint64"],
      [section |-> <<"a">>, name |-> <<"u">>, ty |-> TyUint64,
       defaultValue |-> IntV(<<"1">>), valid |-> "ParseUint64"],
      [section |-> <<"a">>, name |-> <<"z">>, ty |-> 0,
       defaultValue |-> BoolV(FALSE), valid |-> "ParseBool"] }

TagLines ==
    { <<"[", "a", "]">>,
      <<"v", "=", "1", "7">>,
      <<"u", "=", "0", "0", "7">>,
      <<"u", "=", "x">> }

NextTags ==
    \/ \E name \in TagSectionNames : AddSection(name)
    \/ \E c \in TagAddCalls : Add(c)
    \/ ParseBegin
    \/ \E l \in TagLines : ParseLine(l)
    \/ ParseEOF

SpecTags == Init /\ [][NextTags]_vars

\* the dynamic type that goes with a pre-defined type tag
TagType(ty) ==
    CASE ty = TyString -> "string"
      [] ty = TyBool -> "bool"
      [] ty = TyInt64 -> "int64"
      [] ty = TyUint64 -> "uint64"
      [] ty = TyFloat64 -> "float64"

\* the typed accessor that goes with the pre-defined type tag of field
OwnAccessor(field, st) ==
    CASE field.ty = TyString -> StringVal(field, st)
      [] field.ty = TyBool -> BoolVal(field, st)
      [] field.ty = TyInt64 -> Int64Val(field, st)
      [] field.ty = TyUint64 -> Uint64Val(field, st)
      [] field.ty = TyFloat64 -> Float64Val(field, st)

(***************************************************************************)
(* C26: a field that Add has registered has a valid type tag and, if the   *)
(* tag is a pre-defined one, a default value of the type of the tag, so    *)
(* that the typed accessor of the tag fails on no store of a successful    *)
(* parse: a call of Add with another tag or default fails.                 *)
(***************************************************************************)
C26_MismatchFailsAtRegistration ==
    /\ \A field \in AllFields :
         /\ field.ty >= 1
         /\ field.ty < TyUser => TypeOf(field.defaultValue) = TagType(field.ty)
    /\ Succeeded =>
         \A field \in AllFields :
             field.ty < TyUser => ~OwnAccessor(field, ret.store.sections).panic

(***************************************************************************)
(* Stores of fields of several types, read with the typed accessors.       *)
(***************************************************************************)
AccessSectionNames == {<<"a">>}

\* AddString("s"), AddBool("b"), AddUint64("u") and a field of a
\* user-defined type whose values are bools, as TestGood's "vowel"
AccessAddCalls ==
    { [section |-> <<"a">>, name |-> <<"s">>, ty |-> TyString,
       defaultValue |-> StringV(<<>>), valid |-> "ParseString"],
      [section |-> <<"a">>, name |-> <<"b">>, ty |-> TyBool,
       defaultValue |-> BoolV(FALSE), valid |-> "ParseBool"],
      [section |-> <<"a">>, name |-> <<"u">>, ty |-> TyUint64,
       defaultValue |-> Uint64V(<<"0">>), valid |-> "ParseUint64"],
      [section |-> <<"a">>, name |-> <<"w">>, ty |-> TyUser,
       defaultValue |-> BoolV(FALSE), valid |-> "vowel"] }

AccessLines ==
    { <<"[", "a", "]">>,
      <<"s", "=", "x">>,
      <<"b", "=">>,
      <<"u", "=", "7">>,
      <<"w", "=", "a">> }

NextAccess ==
    \/ \E name \in AccessSectionNames : AddSection(name)
    \/ \E c \in AccessAddCalls : Add(c)
    \/ ParseBegin
    \/ \E l \in AccessLines : ParseLine(l)
    \/ ParseEOF

SpecAccess == Init /\ [][NextAccess]_vars

\* the pre-defined type tags
TypedTags == {TyString, TyBool, TyInt64, TyUint64, TyFloat64}

\* the typed accessor of the type tag ty
TypedAccessor(ty, field, st) ==
    CASE ty = TyString -> StringVal(field, st)
      [] ty = TyBool -> BoolVal(field, st)
      [] ty = TyInt64 -> Int64Val(field, st)
      [] ty = TyUint64 -> Uint64Val(field, st)
      [] ty = TyFloat64 -> Float64Val(field, st)

(***************************************************************************)
(* C27: a typed accessor (BoolVal, StringVal, Int64Val, Uint64Val,         *)
(* Float64Val) called on a field whose type tag is not the accessor's      *)
(* fails as a programming error and returns no value, on the store that a  *)
(* parse returns, on the store as it is after any line and on the empty    *)
(* store, whether the field is present in the store or not.                *)
(***************************************************************************)
C27_AccessorOfOtherType ==
    \A st \in {store, ret.store.sections, EmptyMap} :
        \A field \in AllFields :
            \A ty \in TypedTags \ {field.ty} :
                /\ TypedAccessor(ty, field, st).panic
                /\ TypedAccessor(ty, field, st).val = <<>>

\* a parse has succeeded whose store holds a bool for a field of a
\* user-defined type, on which BoolVal fails, and does not hold a field of
\* type bool, on which StringVal fails
C27_Witness ==
    /\ Succeeded
    /\ \E f, g \in AllFields :
         /\ f.ty = TyUser
         /\ FieldPresent(f, ret.store.sections)
         /\ TypeOf(Value(f, ret.store.sections)) = "bool"
         /\ BoolVal(f, ret.store.sections).panic
         /\ g.ty = TyBool
         /\ ~FieldPresent(g, ret.store.sections)
         /\ StringVal(g, ret.store.sections).panic

(***************************************************************************)
(* C28: at every point of a parse, every section recorded in the store is  *)
(* a registered section whose header has been read, every value recorded   *)
(* in it is keyed by a field registered in that section and is a value     *)
(* that the field's coercion returned as valid for an assignment read in   *)
(* that section, and the current section, if there is one, is registered   *)
(* and recorded as present.                                                *)
(***************************************************************************)
C28_StoreInvariant ==
    pc \in {"scan", "done"} =>
        /\ \A s \in DOMAIN store :
             /\ s \in DOMAIN sections
             /\ \E i \in Headers(CommentChar, input, Len(input)) : HeaderName(input[i]) = s
             /\ \A f \in DOMAIN store[s] :
                  /\ f \in DOMAIN sections[s].fields
                  /\ \E i \in Assignments(CommentChar, input, s, f) :
                       Coerced(sections[s].fields[f], input[i]) =
                           [val |-> store[s][f], valid |-> TRUE]
        /\ sect # NoSect => sect \in DOMAIN sections /\ SectionPresent(sect, store)

\* a parse is in its loop, in a section without a value, after it has
\* stored a value in another section
C28_Witness ==
    /\ pc = "scan"
    /\ lineno = 3
    /\ sect # NoSect
    /\ store[sect] = EmptyMap
    /\ \E s \in DOMAIN store : s # sect /\ store[s] # EmptyMap

(***************************************************************************)
(* Inputs in which the header of a section appears more than once.         *)
(***************************************************************************)
ReenterSectionNames == {<<"a">>, <<"b">>}

\* AddString("x") in both sections
ReenterAddCalls ==
    { [section |-> <<"a">>, name |-> <<"x">>, ty |-> TyString,
       defaultValue |-> StringV(<<>>), valid |-> "ParseString"],
      [section |-> <<"b">>, name |-> <<"x">>, ty |-> TyString,
       defaultValue |-> StringV(<<>>), valid |-> "ParseString"] }

ReenterLines ==
    { <<"[", "a", "]">>,
      <<"[", "b", "]">>,
      <<"x", "=", "1">>,
      <<"x", "=", "2">> }

NextReenter ==
    \/ \E name \in ReenterSectionNames : AddSection(name)
    \/ \E c \in ReenterAddCalls : Add(c)
    \/ ParseBegin
    \/ \E l \in ReenterLines : ParseLine(l)
    \/ ParseEOF

SpecReenter == Init /\ [][NextReenter]_vars

\* the step reads the line l
Reads(l) == input' = Append(input, l)

\* the step reads a header of the registered section s
ReadsHeader(s) ==
    \E l \in ReenterLines :
        /\ Reads(l)
        /\ Kind(CommentChar, l) = "header"
        /\ HeaderName(l) = s
        /\ s \in DOMAIN sections

\* the step reads an assignment of the value v to the field f of the
\* current section
ReadsAssign(f, v) ==
    \E l \in ReenterLines :
        /\ Reads(l)
        /\ Kind(CommentChar, l) = "assign"
        /\ AssignName(l) = f
        /\ sect \in DOMAIN sections
        /\ f \in DOMAIN sections[sect].fields
        /\ Coerced(sections[sect].fields[f], l) = [val |-> v, valid |-> TRUE]

\* the store holds section s if a header of s has been read, and in it the
\* value of the last assignment to each field in the regions of s
RegionsKept(s) ==
    /\ (\E i \in Headers(CommentChar, input, Len(input)) : HeaderName(input[i]) = s)
         => SectionPresent(s, store)
    /\ \A f \in DOMAIN sections[s].fields :
         LET as == Assignments(CommentChar, input, s, f)
         IN  as # {} =>
                 lookupVal(store, s, sections[s].fields[f]) =
                     [val |-> Coerced(sections[s].fields[f], input[Max(as)]).val,
                      found |-> TRUE]

\* the store st holds the sections and the values of the store, but for
\* the field f of section s, if any
KeepsBut(st, s, f) ==
    \A u \in DOMAIN store :
        /\ u \in DOMAIN st
        /\ \A g \in DOMAIN store[u] :
             (u # s \/ g # f) => g \in DOMAIN st[u] /\ st[u][g] = store[u][g]

(***************************************************************************)
(* C29: a header of a registered section, be it the first header of the    *)
(* section or a later one, makes the section current and present and       *)
(* leaves every section of the store present with the values it has, those *)
(* of the section entered included; an assignment sets the value of its    *)
(* field in the current section, whether the field has a value or not,     *)
(* and leaves the other values and the sections of the store as they are.  *)
(* So the store holds, while no line has failed, for every field the value *)
(* of the last assignment to it in any region of its section, and as       *)
(* present every section whose header has been read.                       *)
(***************************************************************************)
C29_ReenteringSections ==
    /\ [](pc = "scan" => \A s \in DOMAIN sections : RegionsKept(s))
    /\ [][ \A s \in ReenterSectionNames :
             ReadsHeader(s) =>
                 /\ pc' = "scan"
                 /\ sect' = s
                 /\ SectionPresent(s, store')
                 /\ KeepsBut(store', NoSect, <<>>)
                 /\ DOMAIN store' = DOMAIN store \cup {s}
                 /\ s \notin DOMAIN store => store'[s] = EmptyMap ]_vars
    /\ [][ \A f \in {<<"x">>}, v \in {StringV(<<"1">>), StringV(<<"2">>)} :
             ReadsAssign(f, v) =>
                 /\ pc' = "scan"
                 /\ sect' = sect
                 /\ KeepsBut(store', sect, f)
                 /\ DOMAIN store' = DOMAIN store
                 /\ \A u \in DOMAIN store :
                        DOMAIN store'[u] = DOMAIN store[u] \cup (IF u = sect THEN {f} ELSE {})
                 /\ store'[sect][f] = v ]_vars

\* a section has been entered again after a value had been assigned in it,
\* and holds the value
C29_Witness ==
    /\ pc = "scan"
    /\ lineno = 3
    /\ Kind(CommentChar, input[1]) = "header"
    /\ Kind(CommentChar, input[2]) = "assign"
    /\ LastLine = input[1]
    /\ sect = HeaderName(LastLine)
    /\ store[sect] # EmptyMap

(***************************************************************************)
(* Assignment lines with = signs and comment characters in the value, and  *)
(* other lines that hold the comment character.                            *)
(***************************************************************************)
SplitSectionNames == {<<"a">>}

\* AddString("s")
SplitAddCalls ==
    { [section |-> <<"a">>, name |-> <<"s">>, ty |-> TyString,
       defaultValue |-> StringV(<<>>), valid |-> "ParseString"] }

SplitLines ==
    { <<"[", "a", "]">>,
      <<"s", "=", "a", "=", "b">>,
      <<" ", "s", " ", "=", "=", " ">>,
      <<"s", "=", "x", " ", "#", "c">>,
      <<"s", "=", "#">>,
      <<"s", " ", "#", "=", "x">>,
      <<"=", "x">>,
      <<"#", "s", "=", "x">>,
      <<":", "#", "c">> }

NextSplit ==
    \/ \E name \in SplitSectionNames : AddSection(name)
    \/ \E c \in SplitAddCalls : Add(c)
    \/ ParseBegin
    \/ \E l \in SplitLines : ParseLine(l)
    \/ ParseEOF

SpecSplit == Init /\ [][NextSplit]_vars

\* the comment character occurs in line l, and not as its first character
\* after white space
HasInnerCommentChar(l) ==
    /\ \E k \in 1..Len(l) : l[k] = CommentChar
    /\ ~IsBlankOrComment(CommentChar, l)

\* an assignment to a string field is split at its first = sign: the value
\* stored under the name before it is the text after it, trimmed and
\* stripped of its quotes, with its = signs and comment characters
AssignmentSplitsAtFirstEq ==
    LastAssignsString /\ LastTrimmed # <<QuoteChar>> =>
        LastCoercionGot(Unquoted(QuoteChar, LastTrimmed))

(***************************************************************************)
(* C30: an assignment line is split at its first = sign: the field name is *)
(* the identifier before it, and all that follows it up to the end of the  *)
(* line, further = signs and comment characters included, is the raw       *)
(* value; and a comment character that is not the first character of a     *)
(* line after white space starts no comment: the line is read as what it   *)
(* is without the comment character being looked at, an assignment or a    *)
(* line that is not valid.                                                 *)
(***************************************************************************)
C30_SplitAtFirstEq ==
    /\ AssignmentSplitsAtFirstEq
    /\ /\ input # <<>>
       /\ ~readErr
       /\ HasInnerCommentChar(LastLine)
       /\ Kind(CommentChar, LastLine) = "other"
       => Failed /\ ret.err.Line = Len(input)

=============================================================================
